---- MODULE Spec2Model ----
(***************************************************************************)
(* Model of the concurrency and lifecycle core of the word-chain game bot: *)
(* GameState (bot/models.py), WordProcessor (bot/word_processor.py),       *)
(* GameManager (bot/game_manager.py), ResourceMonitor                      *)
(* (bot/concurrent_manager.py) and TimerManager / GameTimerManager         *)
(* (bot/timer_manager.py).                                                 *)
(*                                                                         *)
(* asyncio is single-threaded and cooperative: one action of the model is  *)
(* the code a coroutine runs between two suspension points.                *)
(***************************************************************************)
EXTENDS Integers, Sequences, FiniteSets, TLC

(***************************************************************************)
(* Bounds of the model.                                                    *)
(***************************************************************************)
NumUsers == 3            \* user ids 1..NumUsers
MaxRounds == 2           \* get_next_game_state is not called past this many completed rounds
MaxTasks == 3            \* timer tasks created in one run
NumOps == 2              \* coroutines that call execute_with_chat_lock
TurnTimeout == 2         \* GameConfig.turn_timeout used by the modelled rooms, in seconds
NumWarnings == 1         \* entries of GameConfig.timeout_warnings used by the modelled rooms
MaxPlayersPerGame == 3   \* GameConfig.max_players_per_game used by the modelled rooms

(***************************************************************************)
(* Program constants.                                                      *)
(***************************************************************************)
MinWordLength == 2       \* GameConfig.min_word_length
MaxGames == 100          \* GameManager._max_games

Chats == {1}
Users == 1..NumUsers
TaskIds == 1..MaxTasks
None == 0                \* Python None for an Optional[asyncio.Task]

\* GameResult
VALID_WORD == "valid"
INVALID_LETTER == "invalid_letter"
INVALID_LENGTH == "invalid_length"
INVALID_WORD == "invalid_word"
WRONG_PLAYER == "wrong_player"
NO_ACTIVE_GAME == "no_game"
VALIDATION_ERROR == "validation_error"

(***************************************************************************)
(* Strings are sequences of characters.                                    *)
(***************************************************************************)
LowerLetters == {"a", "b"}
UpperLetters == {"A", "B"}
Chars == LowerLetters \cup UpperLetters \cup {" ", "1"}

Lower(ch) == CASE ch = "A" -> "a" [] ch = "B" -> "b" [] OTHER -> ch
Upper(ch) == CASE ch = "a" -> "A" [] ch = "b" -> "B" [] OTHER -> ch
StrLower(s) == [i \in 1..Len(s) |-> Lower(s[i])]

RECURSIVE LStrip(_)
LStrip(s) == IF s # <<>> /\ Head(s) = " " THEN LStrip(Tail(s)) ELSE s
RECURSIVE RStrip(_)
RStrip(s) == IF s # <<>> /\ s[Len(s)] = " " THEN RStrip(SubSeq(s, 1, Len(s) - 1)) ELSE s
Strip(s) == RStrip(LStrip(s))

\* The raw submissions of the model: empty, too short, mixed case, padded with
\* white space, and not alphabetic.
RawWords ==
    {<<>>, <<"a">>, <<"B", "a">>, <<"a", "b", " ">>, <<"a", "1">>}

(***************************************************************************)
(* GameState (bot/models.py).  The record has exactly the fields of the    *)
(* dataclass that the modelled operations read or write.                   *)
(***************************************************************************)
Player(u) == [user_id |-> u, is_active |-> TRUE]
NoPlayer == [user_id |-> 0, is_active |-> FALSE]   \* Python None for an Optional[Player]

NewGameState(c, letter, ps, active, waiting) ==
    [chat_id |-> c,
     current_letter |-> letter,
     required_length |-> MinWordLength,
     current_player_index |-> 0,
     players |-> ps,
     is_active |-> active,
     timer_task |-> None,
     waiting_timer_task |-> None,
     is_waiting_for_players |-> waiting,
     rounds_completed |-> 0,
     current_round_turns |-> 0]

\* Python list indexing: a negative index counts from the end.
PyIndex(seq, i) == IF i >= 0 THEN seq[i + 1] ELSE seq[Len(seq) + i + 1]

\* players[current_player_index] at line 83 raises IndexError: the index is
\* below -len(players) (line 81 lets every negative index through)
GetCurrentPlayerRaises(g) ==
    g.players # <<>> /\ g.current_player_index < 0 - Len(g.players)

GetCurrentPlayer(g) ==
    IF g.players = <<>> \/ g.current_player_index >= Len(g.players)
    THEN NoPlayer
    ELSE PyIndex(g.players, g.current_player_index)

AdvanceTurn(g) ==
    IF g.players # <<>>
    THEN [g EXCEPT !.current_player_index = (g.current_player_index + 1) % Len(g.players)]
    ELSE g

\* index (1-based) of the first player with this user id, 0 if there is none
PlayerPos(g, u) ==
    IF \E i \in 1..Len(g.players) : g.players[i].user_id = u
    THEN CHOOSE i \in 1..Len(g.players) :
            /\ g.players[i].user_id = u
            /\ \A j \in 1..(i - 1) : g.players[j].user_id # u
    ELSE 0

RemoveAt(seq, k) == SubSeq(seq, 1, k - 1) \o SubSeq(seq, k + 1, Len(seq))

\* remove_player without lines 96-97: the index is not shifted
RemovePlayerNoShift(g, u) ==
    LET k == PlayerPos(g, u)
        i == k - 1
        idx == IF i = g.current_player_index /\ g.current_player_index >= Len(g.players) - 1
               THEN 0
               ELSE g.current_player_index
    IN  IF k = 0
        THEN [ok |-> FALSE, g |-> g]
        ELSE [ok |-> TRUE,
              g |-> [g EXCEPT !.current_player_index = idx, !.players = RemoveAt(g.players, k)]]

RemovePlayer(g, u) ==
    LET k == PlayerPos(g, u)
        i == k - 1
        idx == IF i < g.current_player_index
               THEN g.current_player_index - 1
               ELSE IF i = g.current_player_index /\ g.current_player_index >= Len(g.players) - 1
                    THEN 0
                    ELSE g.current_player_index
    IN  IF k = 0
        THEN [ok |-> FALSE, g |-> g]
        ELSE [ok |-> TRUE,
              g |-> [g EXCEPT !.current_player_index = idx, !.players = RemoveAt(g.players, k)]]

AddPlayer(g, p) ==
    IF PlayerPos(g, p.user_id) # 0
    THEN [ok |-> FALSE, g |-> g]
    ELSE IF Len(g.players) >= MaxPlayersPerGame
         THEN [ok |-> FALSE, g |-> g]
         ELSE [ok |-> TRUE, g |-> [g EXCEPT !.players = Append(g.players, p)]]

ShouldEndGame(g) ==
    Cardinality({i \in 1..Len(g.players) : g.players[i].is_active}) <= 1

RECURSIVE SkipLoop(_, _)
SkipLoop(g, attempts) ==
    IF attempts >= Len(g.players)
    THEN g
    ELSE LET cur == GetCurrentPlayer(g)
         IN  IF cur # NoPlayer /\ cur.is_active
             THEN g
             ELSE SkipLoop([g EXCEPT !.current_player_index =
                                (g.current_player_index + 1) % Len(g.players)],
                           attempts + 1)

SkipInactivePlayers(g) == IF g.players = <<>> THEN g ELSE SkipLoop(g, 0)

SetPlayerActiveStatus(g, u, active) ==
    LET k == PlayerPos(g, u)
        g1 == [g EXCEPT !.players[k].is_active = active]
        cur == GetCurrentPlayer(g1)
    IN  IF k = 0
        THEN [ok |-> FALSE, g |-> g]
        ELSE [ok |-> TRUE,
              g |-> IF ~active /\ cur # NoPlayer /\ cur.user_id = u
                    THEN SkipInactivePlayers(g1)
                    ELSE g1]

(***************************************************************************)
(* WordProcessor (bot/word_processor.py).                                  *)
(***************************************************************************)
IsAlpha(ch) == ch \in LowerLetters \cup UpperLetters

\* _validate_word_format: the normalized word and the error result ("" if none)
ValidateWordFormat(word) ==
    LET normalized == StrLower(Strip(word))
    IN  IF word = <<>>
        THEN [normalized |-> <<>>, error |-> INVALID_WORD]
        ELSE IF normalized = <<>>
             THEN [normalized |-> <<>>, error |-> INVALID_WORD]
             ELSE IF ~(\A i \in 1..Len(normalized) : IsAlpha(normalized[i]))
                  THEN [normalized |-> normalized, error |-> INVALID_WORD]
                  ELSE [normalized |-> normalized, error |-> ""]

\* _validate_starting_letter: word.startswith(required_letter.lower())
ValidateStartingLetter(word, required_letter) ==
    IF Len(word) >= 1 /\ word[1] = Lower(required_letter) THEN "" ELSE INVALID_LETTER

\* _validate_word_length: longer than the minimum is allowed
ValidateWordLength(word, required_length) ==
    IF Len(word) < required_length THEN INVALID_LENGTH ELSE ""

\* The answers of the injected dictionary capability.
DictAnswers == {"yes", "no", "unavailable"}

(* process_word_submission(game_state, player_id, word).  exists = FALSE is *)
(* game_state None.  dict is the answer validate_word would give.  The     *)
(* result is the GameResult and the game state after the call.  GameState  *)
(* has no attribute used_words, so line 69 raises AttributeError, which the*)
(* handler at line 97 turns into VALIDATION_ERROR, as it does with the     *)
(* IndexError of get_current_player at line 56.                            *)
ProcessWordSubmission(exists, g, player_id, word, dict) ==
    LET cur == GetCurrentPlayer(g)
        fmt == ValidateWordFormat(word)
        w == fmt.normalized
    IN  IF ~exists \/ ~g.is_active THEN [result |-> NO_ACTIVE_GAME, g |-> g]
        ELSE IF GetCurrentPlayerRaises(g) THEN [result |-> VALIDATION_ERROR, g |-> g]
        ELSE IF cur = NoPlayer THEN [result |-> NO_ACTIVE_GAME, g |-> g]
        ELSE IF cur.user_id # player_id THEN [result |-> WRONG_PLAYER, g |-> g]
        ELSE IF fmt.error # "" THEN [result |-> fmt.error, g |-> g]
        ELSE IF "used_words" \notin DOMAIN g THEN [result |-> VALIDATION_ERROR, g |-> g]
        ELSE IF w \in g.used_words THEN [result |-> INVALID_WORD, g |-> g]
        ELSE IF ValidateStartingLetter(w, g.current_letter) # ""
             THEN [result |-> INVALID_LETTER, g |-> g]
        ELSE IF ValidateWordLength(w, g.required_length) # ""
             THEN [result |-> INVALID_LENGTH, g |-> g]
        ELSE IF dict = "unavailable" THEN [result |-> VALIDATION_ERROR, g |-> g]
        ELSE IF dict = "no" THEN [result |-> INVALID_WORD, g |-> g]
        ELSE [result |-> VALID_WORD,
              g |-> [g EXCEPT !.used_words = g.used_words \cup {w}]]

\* get_next_game_state with line 181 subtracting: the length shrinks
GetNextGameStateShrinking(word, g) ==
    LET g1 == AdvanceTurn([g EXCEPT !.current_letter = Upper(word[Len(word)])])
        g2 == [g1 EXCEPT !.current_round_turns = g1.current_round_turns + 1]
        g3 == [g2 EXCEPT !.rounds_completed = g2.rounds_completed + 1,
                         !.current_round_turns = 0]
    IN  IF g2.current_round_turns >= Len(g2.players)
        THEN IF g3.rounds_completed >= 2 /\ g3.rounds_completed % 2 = 0
             THEN [g3 EXCEPT !.required_length = g3.required_length - 1]
             ELSE g3
        ELSE g2

\* get_next_game_state whose line 180 does not look at the parity of the
\* round: the length grows at every completed round
GetNextGameStateEveryRound(word, g) ==
    LET g1 == AdvanceTurn([g EXCEPT !.current_letter = Upper(word[Len(word)])])
        g2 == [g1 EXCEPT !.current_round_turns = g1.current_round_turns + 1]
        g3 == [g2 EXCEPT !.rounds_completed = g2.rounds_completed + 1,
                         !.current_round_turns = 0]
    IN  IF g2.current_round_turns >= Len(g2.players)
        THEN [g3 EXCEPT !.required_length = g3.required_length + 1]
        ELSE g2

\* get_next_game_state(word, game_state); word is not empty
GetNextGameState(word, g) ==
    LET g1 == AdvanceTurn([g EXCEPT !.current_letter = Upper(word[Len(word)])])
        g2 == [g1 EXCEPT !.current_round_turns = g1.current_round_turns + 1]
        g3 == [g2 EXCEPT !.rounds_completed = g2.rounds_completed + 1,
                         !.current_round_turns = 0]
    IN  IF g2.current_round_turns >= Len(g2.players)
        THEN IF g3.rounds_completed >= 2 /\ g3.rounds_completed % 2 = 0
             THEN [g3 EXCEPT !.required_length = g3.required_length + 1]
             ELSE g3
        ELSE g2

(***************************************************************************)
(* State.                                                                  *)
(***************************************************************************)
VARIABLES
    games,          \* GameManager._active_games: dict chat_id -> GameState
    game_metrics,   \* ResourceMonitor.game_metrics: the chat ids that have a metrics entry
    stop_tasks,     \* per chat, the pending asyncio.create_task(self.stop_game(chat_id))
    active_timers,  \* TimerManager._active_timers: dict chat_id -> task
    tasks,          \* the asyncio tasks running _timer_coroutine or waiting_countdown
    callers,        \* coroutines of callers suspended inside TimerManager.cancel_timer
    chat_locks,     \* ChatIsolationManager.chat_locks: dict chat_id -> asyncio.Lock
    locks,          \* the asyncio.Lock objects: _locked and the futures in _waiters
    lock_ops,       \* the coroutines running execute_with_chat_lock
    last            \* the call that returned last, with its arguments and result

isolation_vars == <<chat_locks, locks, lock_ops>>
vars == <<games, game_metrics, stop_tasks, active_timers, tasks, callers,
          chat_locks, locks, lock_ops, last>>

\* Python dicts are functions whose domain is the set of keys.
EmptyDict == [x \in {} |-> None]
DictDel(d, k) == [x \in DOMAIN d \ {k} |-> d[x]]
DictSet(d, k, v) == [x \in DOMAIN d \cup {k} |-> IF x = k THEN v ELSE d[x]]

CallerIds == {1}

UnusedTask ==
    [chat |-> 0, pc |-> "unused", must_cancel |-> FALSE, elapsed |-> 0, sent |-> {},
     wi |-> 0, awaiting |-> None, stale |-> FALSE,
     superseded |-> FALSE, cancel_called |-> FALSE, late_cb |-> FALSE, late_to |-> FALSE,
     stopped |-> FALSE, calls |-> <<>>, cb |-> ""]
IdleCaller == [op |-> "", chat |-> 0, pc |-> "idle", awaiting |-> None, stale |-> FALSE, reg |-> FALSE,
               todo |-> <<>>]

Call(op, c, u, ret) == [op |-> op, chat |-> c, user |-> u, ret |-> ret,
                        cur |-> FALSE, ok |-> FALSE, reg |-> FALSE, dict |-> "",
                        warnings |-> <<>>]

\* ChatIsolationManager: the chats and coroutines that use it, and the Lock
\* objects (one can exist per chat and one more per coroutine still using a
\* lock that was removed from chat_locks)
LockChats == {1, 2}
OpIds == 1..NumOps
LockIds == 1..(NumOps + Cardinality(LockChats))
NewLock == [locked |-> FALSE, waiters |-> <<>>]      \* asyncio.Lock()
IdleOp == [chat |-> 0, pc |-> "idle", lock |-> 0]

\* last after a call whose result no property refers to
Other == Call("other", 0, 0, "")

Init ==
    /\ games = EmptyDict
    /\ game_metrics = {}
    /\ stop_tasks = [c \in Chats |-> 0]
    /\ active_timers = EmptyDict
    /\ tasks = [t \in TaskIds |-> UnusedTask]
    /\ callers = [k \in CallerIds |-> IdleCaller]
    /\ chat_locks = EmptyDict
    /\ locks = [l \in LockIds |-> NewLock]
    /\ lock_ops = [o \in OpIds |-> IdleOp]
    /\ last = Call("init", 0, 0, "")

\* the values of the state variables, so that the steps of one action compose
Cur == [g |-> games, m |-> game_metrics, a |-> active_timers, t |-> tasks, k |-> callers,
        l |-> chat_locks]

Commit(S) ==
    /\ games' = S.g
    /\ game_metrics' = S.m
    /\ active_timers' = S.a
    /\ tasks' = S.t
    /\ callers' = S.k

(***************************************************************************)
(* asyncio.Task                                                            *)
(***************************************************************************)
TaskDone(ts, t) == ts[t].pc = "done"

(* task.cancel().  A task that is waiting (for its first step, in sleep, in *)
(* an announcement) gets CancelledError at its next step.  A task that is  *)
(* waiting for another task inside cancel_timer passes the request on to   *)
(* that task (Task.cancel cancels _fut_waiter) and catches the resulting   *)
(* CancelledError at timer_manager.py:76.                                  *)
RECURSIVE Cancel(_, _)
Cancel(ts, t) ==
    IF ts[t].pc \in {"done", "unused"}
    THEN ts
    ELSE IF ts[t].pc \in {"await_task", "grace_await"}
         THEN IF TaskDone(ts, ts[t].awaiting)
              THEN ts
              ELSE Cancel(ts, ts[t].awaiting)
         ELSE [ts EXCEPT ![t].must_cancel = TRUE]

\* timer_task is set and not timer_task.done(), then timer_task.cancel()
CancelIfRunning(ts, t) ==
    IF t # None /\ ~TaskDone(ts, t) THEN Cancel(ts, t) ELSE ts

(* "await task" at timer_manager.py:75 by a coroutine other than the task   *)
(* raises RuntimeError("await wasn't used with future") at once while the  *)
(* task is suspended awaiting itself: the task has yielded itself and its  *)
(* _asyncio_future_blocking flag is still set.  CancelledError is all that *)
(* line 76 catches.                                                        *)
AwaitRaises(ts, t) == ts[t].pc = "self_await"

(***************************************************************************)
(* ResourceMonitor (bot/concurrent_manager.py)                             *)
(***************************************************************************)
\* get_resource_status with "game_usage > 0.9" at line 92
GetResourceStatusStrict(active_games, max_games) ==
    IF active_games * 10 > max_games * 9 THEN "critical"
    ELSE IF active_games * 10 >= max_games * 7 THEN "high"
    ELSE IF active_games * 10 >= max_games * 4 THEN "medium"
    ELSE "low"

(* get_resource_status of a monitor with the given max_games (positive):    *)
(* game_usage = active_games / max_games is compared with 0.9, 0.7 and 0.4. *)
(* The division is correctly rounded, so the quotient equals the literal    *)
(* when the ratio is exactly 9/10, 7/10 or 4/10, and the comparisons are    *)
(* those of the exact ratio.                                                *)
GetResourceStatusFor(active_games, max_games) ==
    IF active_games * 10 >= max_games * 9 THEN "critical"
    ELSE IF active_games * 10 >= max_games * 7 THEN "high"
    ELSE IF active_games * 10 >= max_games * 4 THEN "medium"
    ELSE "low"

\* can_create_game that checks the player count only
CanCreateGamePlayersOnly(active_games, requesting_players, max_games) ==
    IF requesting_players > MaxPlayersPerGame
    THEN [ok |-> FALSE, reason |-> "Too many players for one game"]
    ELSE [ok |-> TRUE, reason |-> "None"]

\* can_create_game of a monitor with the given max_games: the answer and the reason
CanCreateGameFor(active_games, requesting_players, max_games) ==
    IF active_games >= max_games
    THEN [ok |-> FALSE, reason |-> "Maximum concurrent games limit reached"]
    ELSE IF requesting_players > MaxPlayersPerGame
         THEN [ok |-> FALSE, reason |-> "Too many players for one game"]
         ELSE IF GetResourceStatusFor(active_games, max_games) = "critical"
              THEN [ok |-> FALSE, reason |-> "System resources are critically low"]
              ELSE [ok |-> TRUE, reason |-> "None"]

\* get_resource_status of the game manager's monitor
GetResourceStatus(active_games) == GetResourceStatusFor(active_games, MaxGames)

CanCreateGame(active_games, requesting_players) ==
    CanCreateGameFor(active_games, requesting_players, MaxGames).ok

MaxCeiling == 10         \* largest max_games the admission check is called with

\* can_create_game(active_games, requesting_players) on a monitor with max_games;
\* last keeps the arguments, the answer and get_resource_status of the same load
CanCreateGameCall(active_games, requesting_players, max_games) ==
    /\ last' = [op |-> "can_create_game", chat |-> 0, user |-> 0,
                ret |-> CanCreateGameFor(active_games, requesting_players, max_games).reason,
                cur |-> FALSE,
                ok |-> CanCreateGameFor(active_games, requesting_players, max_games).ok,
                reg |-> FALSE, dict |-> "",
                active_games |-> active_games,
                requesting_players |-> requesting_players,
                max_games |-> max_games,
                status |-> GetResourceStatusFor(active_games, max_games)]
    /\ UNCHANGED <<games, game_metrics, stop_tasks, isolation_vars, active_timers, tasks, callers>>

(* The admission check on every load up to one room above the ceiling.     *)
NextAdmit ==
    \E a \in 0..(MaxCeiling + 1), p \in 0..(MaxPlayersPerGame + 1), mg \in 1..MaxCeiling :
        CanCreateGameCall(a, p, mg)

SpecAdmit == Init /\ [][NextAdmit]_vars

(***************************************************************************)
(* GameManager (bot/game_manager.py)                                       *)
(***************************************************************************)
(* A coroutine suspended inside start_turn_timer holds the GameState object *)
(* it fetched before suspending.  When the registry drops or replaces that *)
(* object, the coroutine's later write to game_state.timer_task no longer  *)
(* reaches a registered game.                                              *)
MarkStaleTasks(ts, c) ==
    [t \in TaskIds |->
        IF ts[t].chat = c /\ ts[t].pc \in {"self_await", "await_task", "grace_await"}
        THEN [ts[t] EXCEPT !.stale = TRUE]
        ELSE ts[t]]

MarkStaleCallers(cs, c) ==
    [k \in CallerIds |->
        IF cs[k].chat = c /\ cs[k].pc = "await" /\ cs[k].op = "start_turn_timer"
        THEN [cs[k] EXCEPT !.stale = TRUE]
        ELSE cs[k]]

\* stop_game returned while these timer tasks of the chat were unfinished
MarkStopped(ts, c) ==
    [t \in TaskIds |-> IF ts[t].chat = c /\ ts[t].pc \notin {"unused", "done"}
                       THEN [ts[t] EXCEPT !.stopped = TRUE] ELSE ts[t]]

\* stop_game(chat_id) on a registered game, applied to the values S
StopGameOn(S, c) ==
    [S EXCEPT !.g = DictDel(@, c),
              !.t = MarkStopped(CancelIfRunning(MarkStaleTasks(S.t, c), S.g[c].timer_task), c),
              !.k = MarkStaleCallers(S.k, c),
              !.m = @ \ {c}]

(* cleanup_inactive_games: stop_game for every chat whose metrics entry is  *)
(* older than the 60 minutes and that is registered.  idle is the set of   *)
(* chats whose last activity is that old, were they to have an entry.      *)
(* stop_game never suspends, so the loop runs without interruption.        *)
RECURSIVE CleanupInactiveGames(_, _)
CleanupInactiveGames(S, idle) ==
    LET R == idle \cap S.m \cap DOMAIN S.g
    IN  IF R = {}
        THEN S
        ELSE LET c == CHOOSE x \in R : \A y \in R : x <= y
             IN  CleanupInactiveGames(StopGameOn(S, c), idle)

(* register_game_start after update_game_metrics has left the metrics m, in *)
(* a manager with the given max_games: the entries it appends to           *)
(* resource_warnings.  The entry's text names len(game_metrics) and         *)
(* max_games; its time stamp is left out.  last.warnings keeps what the     *)
(* call that returned last has appended.                                   *)
RegisterGameStartWarnings(m, max_games) ==
    IF GetResourceStatusFor(Cardinality(m), max_games) \in {"high", "critical"}
    THEN <<[active_count |-> Cardinality(m), max_games |-> max_games]>>
    ELSE <<>>

\* cleanup_old_locks: the dict of locks without the keys of the chats in old,
\* whose chat_activity entry is older than the cutoff
WithoutOldLocks(d, old) == [c \in DOMAIN d \ old |-> d[c]]

\* the state after the admission check of start_game and create_waiting_game:
\* unchanged when the request is admitted at once; otherwise
\* _cleanup_inactive_games has stopped the idle rooms and has removed the
\* locks of the chats in old, those not used for 24 hours
AfterAdmission(S, n, max_games, idle, old) ==
    IF CanCreateGameFor(Cardinality(DOMAIN S.g), n, max_games).ok
    THEN S
    ELSE [CleanupInactiveGames(S, idle) EXCEPT !.l = WithoutOldLocks(@, old)]

\* the sets of idle chats that make a difference to a request for n players:
\* the clock is read only when the request is not admitted at once
IdleSets(n, max_games) ==
    IF CanCreateGameFor(Cardinality(DOMAIN games), n, max_games).ok
    THEN {{}}
    ELSE SUBSET DOMAIN games

\* the sets of chats with an old lock that make a difference to the request
OldLockSets(n, max_games) ==
    IF CanCreateGameFor(Cardinality(DOMAIN games), n, max_games).ok
    THEN {{}}
    ELSE SUBSET DOMAIN chat_locks

(* start_game(chat_id, players) with players = the users 1..n, in a manager *)
(* whose monitor has the given max_games; letter is random.choice.         *)
(* last.reg tells whether the chat was registered before the call.         *)
StartGameFor(c, n, letter, max_games, idle, old) ==
    LET players == [i \in 1..n |-> Player(i)]
        S1 == AfterAdmission(Cur, n, max_games, idle, old)
        replaces == c \in DOMAIN S1.g
    IN  IF \/ (c \in DOMAIN games /\ games[c].is_active)
           \/ n < 1
           \/ n > MaxPlayersPerGame
        THEN /\ last' = [Call("start_game", c, 0, "ValueError") EXCEPT !.reg = c \in DOMAIN games]
             /\ UNCHANGED <<games, game_metrics, stop_tasks, isolation_vars, active_timers, tasks, callers>>
        ELSE IF ~CanCreateGameFor(Cardinality(DOMAIN S1.g), n, max_games).ok
             THEN /\ Commit(S1)
                  /\ last' = [Call("start_game", c, 0, "ValueError") EXCEPT !.reg = c \in DOMAIN games]
                  /\ chat_locks' = S1.l
                  /\ UNCHANGED <<stop_tasks, locks, lock_ops>>
             ELSE /\ Commit([S1 EXCEPT
                              !.g = DictSet(@, c, NewGameState(c, letter, players, TRUE, TRUE)),
                              !.m = @ \cup {c},
                              !.t = IF replaces THEN MarkStaleTasks(@, c) ELSE @,
                              !.k = IF replaces THEN MarkStaleCallers(@, c) ELSE @])
                  /\ last' = [Call("start_game", c, 0, "ok") EXCEPT
                                 !.reg = c \in DOMAIN games,
                                 !.warnings = RegisterGameStartWarnings(S1.m \cup {c}, max_games)]
                  /\ chat_locks' = S1.l
                  /\ UNCHANGED <<stop_tasks, locks, lock_ops>>

\* start_game in the game manager, whose monitor is built with max_games = 100
StartGame(c, n, letter) ==
    \E idle \in IdleSets(n, MaxGames), old \in OldLockSets(n, MaxGames) :
        StartGameFor(c, n, letter, MaxGames, idle, old)

(* create_waiting_game(chat_id, initial_player) in a manager whose monitor  *)
(* has the given max_games; letter is random.choice.  The error decorator  *)
(* retries the call once, and the retry raises the same error.             *)
CreateWaitingGameFor(c, u, letter, max_games, idle, old) ==
    LET S1 == AfterAdmission(Cur, 1, max_games, idle, old)
    IN  IF c \in DOMAIN games
        THEN /\ last' = [Call("create_waiting_game", c, u, "ValueError") EXCEPT !.reg = c \in DOMAIN games]
             /\ UNCHANGED <<games, game_metrics, stop_tasks, isolation_vars, active_timers, tasks, callers>>
        ELSE IF ~CanCreateGameFor(Cardinality(DOMAIN S1.g), 1, max_games).ok
             THEN /\ Commit(S1)
                  /\ last' = [Call("create_waiting_game", c, u, "ValueError") EXCEPT !.reg = c \in DOMAIN games]
                  /\ chat_locks' = S1.l
                  /\ UNCHANGED <<stop_tasks, locks, lock_ops>>
             ELSE /\ Commit([S1 EXCEPT
                              !.g = DictSet(@, c, NewGameState(c, letter, <<Player(u)>>,
                                                               FALSE, TRUE))])
                  /\ last' = Call("create_waiting_game", c, u, "ok")
                  /\ chat_locks' = S1.l
                  /\ UNCHANGED <<stop_tasks, locks, lock_ops>>

\* create_waiting_game in the game manager
CreateWaitingGame(c, u, letter) ==
    \E idle \in IdleSets(1, MaxGames), old \in OldLockSets(1, MaxGames) :
        CreateWaitingGameFor(c, u, letter, MaxGames, idle, old)

\* cleanup_inactive_games_manual(); last.ret tells whether a game was cleaned up
CleanupInactiveGamesCall(idle) ==
    /\ Commit(CleanupInactiveGames(Cur, idle))
    /\ last' = Call("cleanup_inactive_games", 0, 0,
                    IF idle \cap game_metrics \cap DOMAIN games # {} THEN "cleaned" ELSE "none")
    /\ UNCHANGED <<stop_tasks, isolation_vars>>

\* add_player_to_game(chat_id, player): joins a room that waits for players
AddPlayerToGame(c, u) ==
    /\ IF c \notin DOMAIN games \/ ~games[c].is_waiting_for_players
       THEN /\ last' = Call("add_player_to_game", c, u, "False")
            /\ UNCHANGED games
       ELSE LET r == AddPlayer(games[c], Player(u))
            IN  /\ games' = DictSet(games, c, r.g)
                /\ last' = Call("add_player_to_game", c, u, IF r.ok THEN "True" ELSE "False")
    /\ UNCHANGED <<game_metrics, stop_tasks, isolation_vars, active_timers, tasks, callers>>

\* lines 157-168 of start_actual_game on a waiting room, applied to the values
\* S: the waiting timer is cancelled (also when it is the task that runs this
\* call), the room is activated and register_game_start adds its metrics
StartActualGameOn(S, c) ==
    LET w == S.g[c].waiting_timer_task
    IN  [S EXCEPT !.g[c].is_active = TRUE,
                  !.g[c].is_waiting_for_players = FALSE,
                  !.g[c].waiting_timer_task = None,
                  !.t = IF w # None THEN Cancel(@, w) ELSE @,
                  !.m = @ \cup {c}]

\* start_actual_game(chat_id) in a manager whose monitor has the given
\* max_games.  last.cur tells whether the room was active before the call.
\* The error decorator retries the call once, and the retry raises the same
\* error.
StartActualGameFor(c, max_games) ==
    IF \/ c \notin DOMAIN games
       \/ ~games[c].is_waiting_for_players
       \/ Len(games[c].players) < 2
    THEN /\ last' = Call("start_actual_game", c, 0, "ValueError")
         /\ UNCHANGED <<games, game_metrics, stop_tasks, isolation_vars, active_timers, tasks, callers>>
    ELSE /\ Commit(StartActualGameOn(Cur, c))
         /\ last' = [Call("start_actual_game", c, 0, "ok") EXCEPT
                        !.cur = games[c].is_active,
                        !.warnings = RegisterGameStartWarnings(game_metrics \cup {c}, max_games)]
         /\ UNCHANGED <<stop_tasks, isolation_vars>>

\* start_actual_game in the game manager, whose monitor is built with max_games = 100
StartActualGame(c) == StartActualGameFor(c, MaxGames)

\* the submission would pass every check of process_word_submission
Acceptable(g, word, dict) ==
    LET fmt == ValidateWordFormat(word)
    IN  /\ fmt.error = ""
        /\ ValidateStartingLetter(fmt.normalized, g.current_letter) = ""
        /\ ValidateWordLength(fmt.normalized, g.required_length) = ""
        /\ dict = "yes"

\* process_word whose else branch at line 206 also passes the turn on
ProcessWordRejectAdvances(c, u, word, dict) ==
    LET exists == c \in DOMAIN games
        g == IF exists THEN games[c] ELSE NewGameState(c, "A", <<>>, FALSE, FALSE)
        r == ProcessWordSubmission(exists, g, u, word, dict)
        cur == exists /\ g.is_active /\ ~GetCurrentPlayerRaises(g) /\ GetCurrentPlayer(g).user_id = u
        call == [Call("process_word", c, u, r.result) EXCEPT
                    !.cur = cur,
                    !.ok = exists /\ Acceptable(g, word, dict),
                    !.dict = IF cur /\ Acceptable(g, word, "yes") THEN dict ELSE ""]
    IN  IF ~exists
        THEN /\ last' = [call EXCEPT !.ret = "AttributeError"]
             /\ UNCHANGED <<games, game_metrics, stop_tasks, isolation_vars, active_timers, tasks, callers>>
        ELSE /\ games' = DictSet(games, c, AdvanceTurn(g))
             /\ game_metrics' = game_metrics \cup {c}
             /\ last' = call
             /\ UNCHANGED <<stop_tasks, isolation_vars, active_timers, tasks, callers>>

\* process_word(chat_id, player_id, word); dict is the dictionary's answer for the word.
\* last.dict is that answer when the current player's word passes the format,
\* letter and length checks.
ProcessWord(c, u, word, dict) ==
    LET exists == c \in DOMAIN games
        g == IF exists THEN games[c] ELSE NewGameState(c, "A", <<>>, FALSE, FALSE)
        r == ProcessWordSubmission(exists, g, u, word, dict)
        g2 == GetNextGameState(StrLower(Strip(word)), r.g)
        running == g2.timer_task # None /\ ~TaskDone(tasks, g2.timer_task)
        cur == exists /\ g.is_active /\ ~GetCurrentPlayerRaises(g) /\ GetCurrentPlayer(g).user_id = u
        call == [Call("process_word", c, u, r.result) EXCEPT
                    !.cur = cur,
                    !.ok = exists /\ Acceptable(g, word, dict),
                    !.dict = IF cur /\ Acceptable(g, word, "yes") THEN dict ELSE ""]
    IN  IF r.result = VALID_WORD
        THEN /\ games' = DictSet(games, c,
                            [g2 EXCEPT !.timer_task = IF running THEN None ELSE g2.timer_task])
             /\ tasks' = CancelIfRunning(tasks, g2.timer_task)
             /\ game_metrics' = game_metrics \cup {c}
             /\ last' = call
             /\ UNCHANGED <<stop_tasks, isolation_vars, active_timers, callers>>
        ELSE IF ~exists
             \* register_game_activity(chat_id, None, errors=1) raises AttributeError
             THEN /\ last' = [call EXCEPT !.ret = "AttributeError"]
                  /\ UNCHANGED <<games, game_metrics, stop_tasks, isolation_vars, active_timers, tasks, callers>>
             ELSE /\ game_metrics' = game_metrics \cup {c}
                  /\ last' = call
                  /\ UNCHANGED <<games, stop_tasks, isolation_vars, active_timers, tasks, callers>>

\* handle_timeout that calls advance_turn after the removal
HandleTimeoutAdvancing(g) ==
    LET cur == GetCurrentPlayer(g)
        g1 == AdvanceTurn(RemovePlayer([g EXCEPT !.timer_task = None], cur.user_id).g)
        g2 == IF Len(g1.players) > 1 THEN SkipInactivePlayers(g1) ELSE g1
    IN  IF Len(g2.players) <= 1 THEN [g2 EXCEPT !.is_active = FALSE] ELSE g2

\* handle_timeout(chat_id) on a registered, active game with a current player
HandleTimeout(g) ==
    LET cur == GetCurrentPlayer(g)
        g1 == RemovePlayer([g EXCEPT !.timer_task = None], cur.user_id).g
        g2 == IF Len(g1.players) > 1 THEN SkipInactivePlayers(g1) ELSE g1
    IN  IF Len(g2.players) <= 1 THEN [g2 EXCEPT !.is_active = FALSE] ELSE g2

\* handle_timeout returns a player (it eliminates)
TimeoutEliminates(gs, c) ==
    c \in DOMAIN gs /\ gs[c].is_active /\ GetCurrentPlayer(gs[c]) # NoPlayer

\* last.user is the eliminated player, 0 when handle_timeout returns None;
\* last.ok tells whether the player after the eliminated one is active
HandleTimeoutCall(c) ==
    /\ IF TimeoutEliminates(games, c)
       THEN /\ games' = DictSet(games, c, HandleTimeout(games[c]))
            /\ game_metrics' = game_metrics \cup {c}
            /\ last' = [Call("handle_timeout", c, GetCurrentPlayer(games[c]).user_id, "Player")
                           EXCEPT !.ok = GetCurrentPlayer(RemovePlayer(games[c],
                                             GetCurrentPlayer(games[c]).user_id).g).is_active]
       ELSE /\ last' = Call("handle_timeout", c, 0, "None")
            /\ UNCHANGED <<games, game_metrics>>
    /\ UNCHANGED <<stop_tasks, isolation_vars, active_timers, tasks, callers>>

\* stop_game without line 278: the game stays in the registry
StopGameGamesKept(c) == games

\* the effects of stop_game(chat_id) on a registered game
StopGameGames(c) == DictDel(games, c)
StopGameTasks(ts, c) ==
    MarkStopped(CancelIfRunning(MarkStaleTasks(ts, c), games[c].timer_task), c)
StopGameMetrics(c) == game_metrics \ {c}

StopGame(c) ==
    /\ IF c \notin DOMAIN games
       THEN /\ last' = Call("stop_game", c, 0, "False")
            /\ UNCHANGED <<games, game_metrics, tasks, callers>>
       ELSE /\ games' = StopGameGames(c)
            /\ tasks' = StopGameTasks(tasks, c)
            /\ callers' = MarkStaleCallers(callers, c)
            /\ game_metrics' = StopGameMetrics(c)
            /\ last' = Call("stop_game", c, 0, "True")
    /\ UNCHANGED <<stop_tasks, isolation_vars, active_timers>>

\* a task created by asyncio.create_task(self.stop_game(chat_id)) runs
RunStopTask(c) ==
    /\ stop_tasks[c] > 0
    /\ stop_tasks' = [stop_tasks EXCEPT ![c] = @ - 1]
    /\ UNCHANGED isolation_vars
    /\ IF c \notin DOMAIN games
       THEN UNCHANGED <<games, game_metrics, tasks, callers>>
       ELSE /\ games' = StopGameGames(c)
            /\ tasks' = StopGameTasks(tasks, c)
            /\ callers' = MarkStaleCallers(callers, c)
            /\ game_metrics' = StopGameMetrics(c)
    /\ UNCHANGED <<active_timers, last>>

AddPlayerToActiveGame(c, u) ==
    /\ IF c \notin DOMAIN games \/ ~games[c].is_active
       THEN /\ last' = Other
            /\ UNCHANGED games
       ELSE LET r == AddPlayer(games[c], Player(u))
            IN  /\ games' = DictSet(games, c, r.g)
                /\ last' = Other
    /\ UNCHANGED <<game_metrics, stop_tasks, isolation_vars, active_timers, tasks, callers>>

MaxStopTasks == 2        \* pending stop_game tasks per chat

RemovePlayerFromGame(c, u) ==
    /\ IF c \notin DOMAIN games \/ ~games[c].is_active
       THEN /\ last' = Other
            /\ UNCHANGED <<games, stop_tasks, isolation_vars>>
       ELSE LET r == RemovePlayer(games[c], u)
                ends == r.ok /\ ShouldEndGame(r.g)
                i == PlayerPos(games[c], u) - 1
            IN  /\ ends => stop_tasks[c] < MaxStopTasks
                /\ games' = DictSet(games, c, r.g)
                /\ stop_tasks' = IF ends THEN [stop_tasks EXCEPT ![c] = @ + 1] ELSE stop_tasks
                /\ UNCHANGED isolation_vars
                /\ last' = [Call("remove_player_from_game", c, 0,
                                 IF r.ok THEN "True" ELSE "False") EXCEPT
                                !.cur = r.ok /\ i = games[c].current_player_index,
                                !.ok = r.ok /\ i < games[c].current_player_index]
    /\ UNCHANGED <<game_metrics, active_timers, tasks, callers>>

SetPlayerActiveStatusCall(c, u, active) ==
    /\ IF c \notin DOMAIN games \/ ~games[c].is_active
       THEN /\ last' = Other
            /\ UNCHANGED <<games, stop_tasks, isolation_vars>>
       ELSE LET r == SetPlayerActiveStatus(games[c], u, active)
                ends == r.ok /\ ShouldEndGame(r.g)
            IN  /\ ends => stop_tasks[c] < MaxStopTasks
                /\ games' = DictSet(games, c, r.g)
                /\ stop_tasks' = IF ends THEN [stop_tasks EXCEPT ![c] = @ + 1] ELSE stop_tasks
                /\ UNCHANGED isolation_vars
                /\ last' = Other
    /\ UNCHANGED <<game_metrics, active_timers, tasks, callers>>

\* the words get_next_game_state is called with: normalized and not empty
NormalizedWords ==
    {w \in RawWords : w # <<>> /\ ValidateWordFormat(w).error = "" /\ StrLower(Strip(w)) = w}

\* WordProcessor.get_next_game_state(word, game_state), called on a registered game
GetNextGameStateCall(c, w) ==
    /\ c \in DOMAIN games
    /\ games[c].rounds_completed < MaxRounds
    /\ games' = DictSet(games, c, GetNextGameState(w, games[c]))
    /\ last' = Other
    /\ UNCHANGED <<game_metrics, stop_tasks, isolation_vars, active_timers, tasks, callers>>

NextGame ==
    \/ \E c \in Chats, n \in 0..NumUsers, l \in UpperLetters : StartGame(c, n, l)
    \/ \E c \in Chats : HandleTimeoutCall(c)
    \/ \E c \in Chats : StopGame(c)
    \/ \E c \in Chats : RunStopTask(c)
    \/ \E c \in Chats, u \in Users : AddPlayerToActiveGame(c, u)
    \/ \E c \in Chats, u \in Users : RemovePlayerFromGame(c, u)
    \/ \E c \in Chats, u \in Users, a \in BOOLEAN : SetPlayerActiveStatusCall(c, u, a)
    \/ \E c \in Chats, w \in NormalizedWords : GetNextGameStateCall(c, w)

SpecGame == Init /\ [][NextGame]_vars

(* Word submissions together with the operations that change the word      *)
(* requirements or the roster.                                             *)
NextWords ==
    \/ \E c \in Chats, n \in 0..NumUsers, l \in UpperLetters : StartGame(c, n, l)
    \/ \E c \in Chats, u \in Users, w \in RawWords, d \in DictAnswers : ProcessWord(c, u, w, d)
    \/ \E c \in Chats, w \in NormalizedWords : GetNextGameStateCall(c, w)
    \/ \E c \in Chats : HandleTimeoutCall(c)
    \/ \E c \in Chats, u \in Users : AddPlayerToActiveGame(c, u)
    \/ \E c \in Chats, u \in Users : RemovePlayerFromGame(c, u)
    \/ \E c \in Chats : RunStopTask(c)
    \/ \E c \in Chats : StopGame(c)

SpecWords == Init /\ [][NextWords]_vars

(* The operations that change the roster or move the turn.                 *)
NextRoster ==
    \/ \E c \in Chats, n \in 0..NumUsers : StartGame(c, n, "A")
    \/ \E c \in Chats, u \in Users : AddPlayerToActiveGame(c, u)
    \/ \E c \in Chats, u \in Users : RemovePlayerFromGame(c, u)
    \/ \E c \in Chats : HandleTimeoutCall(c)
    \/ \E c \in Chats : RunStopTask(c)
    \/ \E c \in Chats, w \in NormalizedWords : GetNextGameStateCall(c, w)

SpecRoster == Init /\ [][NextRoster]_vars

(* Turn timeouts in rooms whose players can be marked inactive.            *)
NextElim ==
    \/ \E c \in Chats, n \in 0..NumUsers : StartGame(c, n, "A")
    \/ \E c \in Chats, u \in Users, a \in BOOLEAN : SetPlayerActiveStatusCall(c, u, a)
    \/ \E c \in Chats : HandleTimeoutCall(c)
    \/ \E c \in Chats, w \in NormalizedWords : GetNextGameStateCall(c, w)
    \/ \E c \in Chats : RunStopTask(c)

SpecElim == Init /\ [][NextElim]_vars

(* Rooms created waiting or active, joined, promoted and stopped.           *)
NextLobby ==
    \/ \E c \in Chats, n \in 0..NumUsers : StartGame(c, n, "A")
    \/ \E c \in Chats, u \in Users : CreateWaitingGame(c, u, "A")
    \/ \E c \in Chats, u \in Users : AddPlayerToGame(c, u)
    \/ \E c \in Chats : StartActualGame(c)
    \/ \E c \in Chats : HandleTimeoutCall(c)
    \/ \E c \in Chats : StopGame(c)

SpecLobby == Init /\ [][NextLobby]_vars

RoomCeiling == 2         \* max_games of the monitor in the specification of the ceiling

\* one chat more than the ceiling admits
Rooms == 1..(RoomCeiling + 1)

(* A game manager whose monitor has max_games = RoomCeiling: rooms are      *)
(* created, promoted, stopped, timed out and cleaned up.                   *)
NextCeiling ==
    \/ \E c \in Rooms, n \in 1..2 : \E idle \in IdleSets(n, RoomCeiling), old \in OldLockSets(n, RoomCeiling) :
          StartGameFor(c, n, "A", RoomCeiling, idle, old)
    \/ \E c \in Rooms : \E idle \in IdleSets(1, RoomCeiling), old \in OldLockSets(1, RoomCeiling) :
          CreateWaitingGameFor(c, 1, "A", RoomCeiling, idle, old)
    \/ \E c \in Rooms : StartActualGameFor(c, RoomCeiling)
    \/ \E c \in Rooms : StopGame(c)
    \/ \E c \in Rooms : HandleTimeoutCall(c)
    \/ \E idle \in SUBSET Rooms : CleanupInactiveGamesCall(idle)

SpecCeiling == Init /\ [][NextCeiling]_vars

\* the starting letters the submission properties are checked with
SubmitLetters == {"A", "B"}

(* Word submissions against rooms that are missing, waiting, active or     *)
(* ended.                                                                  *)
NextSubmit ==
    \/ \E c \in Chats, n \in 0..NumUsers, l \in SubmitLetters : StartGame(c, n, l)
    \/ \E c \in Chats, u \in Users, l \in SubmitLetters : CreateWaitingGame(c, u, l)
    \/ \E c \in Chats, u \in Users, w \in RawWords, d \in DictAnswers : ProcessWord(c, u, w, d)
    \/ \E c \in Chats, w \in NormalizedWords : GetNextGameStateCall(c, w)
    \/ \E c \in Chats : HandleTimeoutCall(c)
    \/ \E c \in Chats : StopGame(c)

SpecSubmit == Init /\ [][NextSubmit]_vars

(***************************************************************************)
(* Properties of the registry, the roster and the word requirements.       *)
(***************************************************************************)
\* C5: stop_game returns True and removes the room from the registry when the
\* room is registered, and returns False and changes nothing when it is absent.
C5_StopGame ==
    [][\A c \in Chats :
         StopGame(c) =>
            IF c \in DOMAIN games
            THEN last'.ret = "True" /\ c \notin DOMAIN games'
            ELSE /\ last'.ret = "False"
                 /\ UNCHANGED <<games, game_metrics, stop_tasks, isolation_vars, active_timers, tasks, callers>>]_vars

\* stop_game has just removed a registered room
C5_Witness ==
    last.op = "stop_game" /\ last.ret = "True" /\ last.chat \notin DOMAIN games

\* C6: every room has a used-word set, in which the normalized form of every
\* accepted word is kept for the rest of the room's lifetime.
C6_UsedWordsKept ==
    \A c \in DOMAIN games : "used_words" \in DOMAIN games[c]

\* the results of a submission that is not accepted, other than a service error
Rejections == {WRONG_PLAYER, INVALID_WORD, INVALID_LETTER, INVALID_LENGTH, NO_ACTIVE_GAME}

\* C14: a submission that process_word answers with WRONG_PLAYER, INVALID_WORD,
\* INVALID_LETTER, INVALID_LENGTH or NO_ACTIVE_GAME leaves the room's current
\* player index, letter, required length, round counters and player list
\* unchanged, and gives the room no used-word entry.
C14_RejectionChangesNothing ==
    [][\A c \in Chats, u \in Users, w \in RawWords, d \in DictAnswers :
         /\ ProcessWord(c, u, w, d)
         /\ c \in DOMAIN games
         /\ last'.ret \in Rejections
         => /\ c \in DOMAIN games'
            /\ games'[c].current_player_index = games[c].current_player_index
            /\ games'[c].current_letter = games[c].current_letter
            /\ games'[c].required_length = games[c].required_length
            /\ games'[c].rounds_completed = games[c].rounds_completed
            /\ games'[c].current_round_turns = games[c].current_round_turns
            /\ games'[c].players = games[c].players
            /\ DOMAIN games'[c] = DOMAIN games[c]]_vars

\* a player other than the current one has just been turned away in a running game
C14_Witness ==
    /\ last.op = "process_word"
    /\ last.ret = WRONG_PLAYER
    /\ last.chat \in DOMAIN games
    /\ games[last.chat].is_active
    /\ Len(games[last.chat].players) >= 2

\* C15: a submission for a room that is not registered, is waiting for players
\* or has ended makes process_word return NO_ACTIVE_GAME, and neither the
\* registry nor the per-room metrics gain or change an entry.
C15_NoActiveGameIsAValue ==
    [][\A c \in Chats, u \in Users, w \in RawWords, d \in DictAnswers :
         /\ ProcessWord(c, u, w, d)
         /\ (c \notin DOMAIN games \/ ~games[c].is_active)
         => /\ last'.ret = NO_ACTIVE_GAME
            /\ games' = games
            /\ game_metrics' = game_metrics]_vars

\* the outcome the ordered checks give: no active game, wrong player, format,
\* word already used, starting letter, length, dictionary
ExpectedOutcome(g, u, word, dict) ==
    LET fmt == ValidateWordFormat(word)
        w == fmt.normalized
        used == IF "used_words" \in DOMAIN g THEN g.used_words ELSE {}
    IN  IF ~g.is_active \/ GetCurrentPlayer(g) = NoPlayer THEN NO_ACTIVE_GAME
        ELSE IF GetCurrentPlayer(g).user_id # u THEN WRONG_PLAYER
        ELSE IF fmt.error # "" THEN INVALID_WORD
        ELSE IF w \in used THEN INVALID_WORD
        ELSE IF ValidateStartingLetter(w, g.current_letter) # "" THEN INVALID_LETTER
        ELSE IF ValidateWordLength(w, g.required_length) # "" THEN INVALID_LENGTH
        ELSE IF dict = "unavailable" THEN VALIDATION_ERROR
        ELSE IF dict = "no" THEN INVALID_WORD
        ELSE VALID_WORD

\* C16: the result of process_word on a registered room is the one given by
\* the first failing check in the order NO_ACTIVE_GAME, WRONG_PLAYER, format,
\* used word, INVALID_LETTER, INVALID_LENGTH, dictionary; VALID_WORD when
\* every check passes.
C16_FirstFailingCheckDecides ==
    [][\A c \in Chats, u \in Users, w \in RawWords, d \in DictAnswers :
         ProcessWord(c, u, w, d) /\ c \in DOMAIN games
         => last'.ret = ExpectedOutcome(games[c], u, w, d)]_vars

\* C17: when get_next_game_state applies an accepted word to a running room,
\* the required letter becomes the word's last character, the turn passes to
\* the next player in turn order and the required length grows by one.
C17_AcceptedWordAdvances ==
    [][\A c \in Chats, w \in NormalizedWords :
         /\ GetNextGameStateCall(c, w)
         /\ games[c].is_active
         /\ games[c].players # <<>>
         => /\ games'[c].current_letter = Upper(w[Len(w)])
            /\ games'[c].current_player_index =
                   (games[c].current_player_index + 1) % Len(games[c].players)
            /\ games'[c].required_length = games[c].required_length + 1]_vars

\* get_player_turn_order without its first element: the players after the
\* current one, in turn order
TurnOrderAfter(g) ==
    LET n == Len(g.players)
    IN  [k \in 1..(n - 1) |-> g.players[((g.current_player_index + k) % n) + 1]]

\* the first active player after the current one in turn order; the player
\* who follows the current one when none of them is active
NextActiveAfter(g) ==
    LET R == TurnOrderAfter(g)
        act == {k \in 1..Len(R) : R[k].is_active}
    IN  IF act = {} THEN R[1] ELSE R[CHOOSE k \in act : \A j \in act : k <= j]

\* handle_timeout has removed the current player of g and kept the others in order
TimedOutPlayerRemoved(g, h) ==
    h.players = SelectSeq(g.players, LAMBDA p : p.user_id # GetCurrentPlayer(g).user_id)

\* C18 as stated: when the current player's turn times out in a room with at
\* least three players, that player is removed, the player who followed them
\* in turn order becomes the current player, and the required letter and
\* length are unchanged.
C18_FollowerBecomesCurrent ==
    [][\A c \in Chats :
         /\ HandleTimeoutCall(c)
         /\ TimeoutEliminates(games, c)
         /\ Len(games[c].players) >= 3
         => /\ TimedOutPlayerRemoved(games[c], games'[c])
            /\ GetCurrentPlayer(games'[c]) = TurnOrderAfter(games[c])[1]
            /\ games'[c].current_letter = games[c].current_letter
            /\ games'[c].required_length = games[c].required_length]_vars

\* C18 amended: when the current player's turn times out in a room with at
\* least three players, that player is removed, the first active player after
\* them in turn order becomes the current player (the player who followed
\* them when no remaining player is active), and the required letter and
\* length are unchanged.
C18_NextActiveBecomesCurrent ==
    [][\A c \in Chats :
         /\ HandleTimeoutCall(c)
         /\ TimeoutEliminates(games, c)
         /\ Len(games[c].players) >= 3
         => /\ TimedOutPlayerRemoved(games[c], games'[c])
            /\ GetCurrentPlayer(games'[c]) = NextActiveAfter(games[c])
            /\ games'[c].current_letter = games[c].current_letter
            /\ games'[c].required_length = games[c].required_length]_vars

\* a timeout has just eliminated a player, at least two players remain, and the
\* turn went past an inactive player to an active one
C18_Witness ==
    /\ last.op = "handle_timeout"
    /\ last.ret = "Player"
    /\ ~last.ok
    /\ last.chat \in DOMAIN games
    /\ LET g == games[last.chat]
       IN  /\ Len(g.players) >= 2
           /\ GetCurrentPlayer(g).is_active
           /\ \E i \in 1..Len(g.players) : ~g.players[i].is_active

\* C20: start_game and create_waiting_game for a chat that already has a
\* GameState in the registry fail with ValueError and leave the registry as
\* it was.
C20_CreateOverExistingFails ==
    [][\A c \in DOMAIN games :
         ((\E n \in 0..NumUsers, l \in SubmitLetters : StartGame(c, n, l))
             \/ (\E u \in Users, l \in SubmitLetters : CreateWaitingGame(c, u, l)))
         => (last'.ret = "ValueError" /\ games' = games)]_vars

\* C21: start_actual_game succeeds only for a registered room that waits for
\* players, is not active and has at least two players; in every other case
\* it raises ValueError and leaves the room (active flag, waiting flag and
\* all else) as it was.
C21_PromoteOnlyWaitingRooms ==
    [][\A c \in Chats :
         (/\ StartActualGame(c)
          /\ \/ c \notin DOMAIN games
             \/ ~games[c].is_waiting_for_players
             \/ games[c].is_active
             \/ Len(games[c].players) < 2)
         => (last'.ret = "ValueError" /\ games' = games)]_vars

\* C22: can_create_game allows the request exactly when active_games is below
\* max_games, requesting_players is at most the per-game maximum and
\* active_games is below 90% of max_games; the load is low below 40%, medium
\* from 40% to below 70%, high from 70% to below 90% and critical from 90%.
C22_AdmissionRule ==
    last.op = "can_create_game" =>
        LET a == last.active_games
            mg == last.max_games
        IN  /\ last.ok <=> (/\ a < mg
                            /\ last.requesting_players <= MaxPlayersPerGame
                            /\ 10 * a < 9 * mg)
            /\ last.status = "low" <=> 10 * a < 4 * mg
            /\ last.status = "medium" <=> (4 * mg <= 10 * a /\ 10 * a < 7 * mg)
            /\ last.status = "high" <=> (7 * mg <= 10 * a /\ 10 * a < 9 * mg)
            /\ last.status = "critical" <=> 9 * mg <= 10 * a

\* a request at exactly 90% of the ceiling, with an allowed player count, was refused
C22_Witness ==
    /\ last.op = "can_create_game"
    /\ 10 * last.active_games = 9 * last.max_games
    /\ last.requesting_players <= MaxPlayersPerGame
    /\ ~last.ok
    /\ last.status = "critical"

\* C23: whatever rooms are created, promoted, stopped, timed out and cleaned
\* up, the registry never holds more rooms than max_games, and a create
\* request that is refused adds no room to the registry.
C23_RegistryWithinCeiling ==
    /\ Cardinality(DOMAIN games) <= RoomCeiling
    /\ (/\ last.op \in {"start_game", "create_waiting_game"}
        /\ last.ret = "ValueError"
        /\ ~last.reg)
       => last.chat \notin DOMAIN games

\* a create request for an unregistered chat has just been refused with the
\* registry at its ceiling
C23_Witness ==
    /\ last.op \in {"start_game", "create_waiting_game"}
    /\ last.ret = "ValueError"
    /\ ~last.reg
    /\ last.chat \notin DOMAIN games
    /\ Cardinality(DOMAIN games) = RoomCeiling

\* C7: required_length of a room never decreases, whatever the step: a word
\* accepted or rejected, a timeout, a player added or removed.  start_game on a
\* chat whose game has ended creates a new room.
C7_RequiredLengthNonDecreasing ==
    [][\A c \in DOMAIN games \cap DOMAIN games' :
         \/ games'[c].required_length >= games[c].required_length
         \/ \E n \in 0..NumUsers, l \in UpperLetters : StartGame(c, n, l)]_vars

\* a room whose required length has grown
C7_Witness ==
    \E c \in DOMAIN games : games[c].required_length > MinWordLength

\* C8: every room is inactive or its current_player_index is within the player
\* list, so that a current player exists.
C8_CurrentIndexInRange ==
    \A c \in DOMAIN games :
        \/ ~games[c].is_active
        \/ /\ 0 <= games[c].current_player_index
           /\ games[c].current_player_index < Len(games[c].players)

\* C9: when the current player is removed from a room with at least two other
\* players, the player who was next in turn order becomes the current player;
\* when a player before the current index is removed, the current player stays.
C9_RemoveKeepsTurnOrder ==
    [][\A c \in Chats, u \in Users :
         (/\ RemovePlayerFromGame(c, u)
          /\ c \in DOMAIN games
          /\ games[c].is_active
          /\ GetCurrentPlayer(games[c]) # NoPlayer
          /\ PlayerPos(games[c], u) # 0)
         => LET g == games[c]
                n == Len(g.players)
                i == PlayerPos(g, u) - 1
                next == g.players[((g.current_player_index + 1) % n) + 1]
            IN  /\ (i = g.current_player_index /\ n >= 3)
                      => GetCurrentPlayer(games'[c]) = next
                /\ i < g.current_player_index
                      => GetCurrentPlayer(games'[c]) = GetCurrentPlayer(g)]_vars

\* the current player has just been removed and two or more players remain
C9_Witness ==
    /\ last.op = "remove_player_from_game"
    /\ last.cur
    /\ last.chat \in DOMAIN games
    /\ Len(games[last.chat].players) >= 2
    /\ games[last.chat].current_player_index > 0

\* C10: of two submissions by different players of a room during one turn, the
\* current player's, which passes every check, ends as ValidWord and the other
\* player's ends as WrongPlayer, in either order of the two calls.
C10_OneValidOneWrongPlayer ==
    [][\A c \in Chats, u \in Users, w \in RawWords, d \in DictAnswers :
         (/\ ProcessWord(c, u, w, d)
          /\ last.op = "process_word"
          /\ last.chat = c
          /\ last.user # u)
         => /\ (last.cur /\ last.ok) => last.ret = VALID_WORD
            /\ (~last.cur /\ last'.cur /\ last'.ok)
                  => (last.ret = WRONG_PLAYER /\ last'.ret = VALID_WORD)]_vars

(***************************************************************************)
(* TimerManager and GameTimerManager (bot/timer_manager.py).               *)
(*                                                                         *)
(* A timer task is at one of these places:                                 *)
(*   created     asyncio.create_task was called, the coroutine has not run *)
(*   sleep       in asyncio.sleep(1) at line 170                           *)
(*   warn_ann    in _handle_warning, awaiting the announcement callback    *)
(*   ann_elim    in _handle_timeout, awaiting "player_eliminated"          *)
(*   ann_end     in _handle_timeout, awaiting "game_ended"                 *)
(*   ann_next    in _handle_timeout, awaiting "next_turn"                  *)
(*   self_await  in cancel_timer called from its own timeout callback,     *)
(*               awaiting itself at line 75                                *)
(*   await_task  in cancel_timer called from its own timeout callback,     *)
(*               awaiting another task at line 75                          *)
(*   done        finished                                                  *)
(* The announcement callback is the transport's coroutine; the model lets  *)
(* other coroutines run while it is awaited.                               *)
(***************************************************************************)
\* GameConfig.timeout_warnings as the modelled rooms are configured (the
\* default of the field is [15, 10, 5] at a turn_timeout of 30): the offsets
\* NumWarnings, ..., 1 in seconds before the timeout
TimeoutWarnings == [i \in 1..NumWarnings |-> NumWarnings + 1 - i]

\* sorted(warning_times, reverse=True)
RECURSIVE SortedDesc(_)
SortedDesc(seq) ==
    IF seq = <<>>
    THEN <<>>
    ELSE LET m == CHOOSE i \in 1..Len(seq) : \A j \in 1..Len(seq) : seq[i] >= seq[j]
         IN  <<seq[m]>> \o SortedDesc(RemoveAt(seq, m))

GameActive(gs, c) == c \in DOMAIN gs /\ gs[c].is_active

NewTask(c) == [UnusedTask EXCEPT !.chat = c, !.pc = "created"]
DoneTask(tr) == [UnusedTask EXCEPT !.chat = tr.chat, !.pc = "done",
                                   !.late_cb = tr.late_cb, !.late_to = tr.late_to,
                                   !.calls = tr.calls, !.cb = tr.cb]
HasFreeTask(ts) == \E t \in TaskIds : ts[t].pc = "unused"
FreeTask(ts) == CHOOSE t \in TaskIds : ts[t].pc = "unused" /\ \A u \in 1..(t - 1) : ts[u].pc # "unused"

\* the countdown of the task has not reached its timeout callback
Pending(tr) == tr.pc \in {"created", "sleep", "warn_ann"}

\* start_turn_timer was called for the chat while these timers were pending
MarkSuperseded(ts, c) ==
    [t \in TaskIds |-> IF ts[t].chat = c /\ Pending(ts[t])
                       THEN [ts[t] EXCEPT !.superseded = TRUE] ELSE ts[t]]

\* cancel_timer was called for the chat while these timers were pending
MarkCancelCalled(ts, c) ==
    [t \in TaskIds |-> IF ts[t].chat = c /\ Pending(ts[t])
                       THEN [ts[t] EXCEPT !.cancel_called = TRUE] ELSE ts[t]]

\* the task returns from _timer_coroutine without having run its body
EndUnstarted(S, t) == [S EXCEPT !.t[t] = DoneTask(@)]

\* the finally block at lines 194-197, then the task is done
Finish(S, t) == [S EXCEPT !.a = DictDel(@, S.t[t].chat), !.t[t] = DoneTask(@)]

\* the for loop over the warning times at lines 149-167, from position i, up to
\* the next suspension: in the announcement of a warning, or in sleep(1)
RECURSIVE WarnLoop(_, _, _)
WarnLoop(S, t, i) ==
    LET tr == S.t[t]
        W == SortedDesc(TimeoutWarnings)
        remaining == TurnTimeout - tr.elapsed
        S1 == [S EXCEPT !.t[t].late_cb = @ \/ tr.superseded]
    IN  IF i > Len(W)
        THEN [S EXCEPT !.t[t].pc = "sleep", !.t[t].wi = 0]
        ELSE IF remaining <= W[i] /\ W[i] \notin tr.sent /\ remaining > 0
             THEN IF GameActive(S.g, tr.chat)
                  THEN [S1 EXCEPT !.t[t].pc = "warn_ann", !.t[t].wi = i]
                  ELSE WarnLoop([S1 EXCEPT !.t[t].sent = @ \cup {W[i]}], t, i + 1)
             ELSE WarnLoop(S, t, i + 1)

\* _handle_timeout from line 305: the game ended, continues, or is gone
AfterElimination(S, t) ==
    LET c == S.t[t].chat
    IN  IF c \notin DOMAIN S.g
        THEN Finish(S, t)
        ELSE IF ~S.g[c].is_active
             THEN [S EXCEPT !.t[t].pc = "ann_end"]
             ELSE [S EXCEPT !.t[t].pc = "ann_next"]

\* the timeout callback is invoked (line 178): _handle_timeout up to line 303
TimeoutCallback(S, t) ==
    LET tr == S.t[t]
        c == tr.chat
        S1 == [S EXCEPT !.t[t].late_cb = @ \/ tr.superseded,
                        !.t[t].late_to = @ \/ tr.cancel_called]
    IN  IF ~GameActive(S.g, c)
        THEN Finish(S1, t)
        ELSE IF TimeoutEliminates(S.g, c)
             THEN [S1 EXCEPT !.g = DictSet(@, c, HandleTimeout(S.g[c])),
                             !.m = @ \cup {c},
                             !.t[t].pc = "ann_elim"]
             ELSE AfterElimination(S1, t)

(* GameTimerManager.start_turn_timer from its start to the await in          *)
(* cancel_timer or to the creation of the task.  self is the calling timer *)
(* task, None for another caller.  next is "false" (no active game),       *)
(* "self_await", "await_task", "create", or "raises" when the await in     *)
(* cancel_timer raises RuntimeError.                                       *)
StartPlan(S, c, self) ==
    LET tt == S.g[c].timer_task
        ts1 == IF tt # self THEN CancelIfRunning(S.t, tt) ELSE S.t
        ts2 == MarkSuperseded(ts1, c)
        reg == c \in DOMAIN S.a
    IN  IF ~GameActive(S.g, c)
        THEN [S |-> S, next |-> "false", awaiting |-> None]
        ELSE IF reg /\ ~TaskDone(ts2, S.a[c])
             THEN IF S.a[c] = self
                  THEN [S |-> [S EXCEPT !.t = ts2], next |-> "self_await", awaiting |-> self]
                  ELSE [S |-> [S EXCEPT !.t = Cancel(ts2, S.a[c])],
                        next |-> IF AwaitRaises(ts2, S.a[c]) THEN "raises" ELSE "await_task",
                        awaiting |-> S.a[c]]
             ELSE [S |-> [S EXCEPT !.t = ts2, !.a = DictDel(@, c)],
                   next |-> "create", awaiting |-> None]

\* lines 44-54 and 243: create the task, register it, store it in the game state
\* the caller fetched (stale: that object is no longer the registered one)
CreateTimer(S, c, stale) ==
    LET n == FreeTask(S.t)
    IN  [S EXCEPT !.t[n] = NewTask(c),
                  !.a = DictSet(@, c, n),
                  !.g = IF ~stale /\ c \in DOMAIN S.g
                        THEN [S.g EXCEPT ![c].timer_task = n]
                        ELSE S.g]

\* a timer task takes its first step
TimerRun(t) ==
    /\ tasks[t].pc = "created"
    /\ IF tasks[t].must_cancel
       THEN Commit(EndUnstarted(Cur, t))
       ELSE Commit(WarnLoop(Cur, t, 1))
    /\ UNCHANGED <<stop_tasks, isolation_vars, last>>

\* sleep(1) returns; elapsed is read from the clock: at least one second more
TimerWake(t, e) ==
    /\ tasks[t].pc = "sleep"
    /\ e > tasks[t].elapsed
    /\ IF tasks[t].must_cancel
       THEN Commit(Finish(Cur, t))
       ELSE LET S1 == [Cur EXCEPT !.t[t].elapsed = e]
            IN  IF e < TurnTimeout
                THEN Commit(WarnLoop(S1, t, 1))
                ELSE Commit(TimeoutCallback(S1, t))
    /\ UNCHANGED <<stop_tasks, isolation_vars, last>>

\* the announcement of a warning returns
TimerWarnResume(t) ==
    /\ tasks[t].pc = "warn_ann"
    /\ IF tasks[t].must_cancel
       THEN Commit(Finish(Cur, t))
       ELSE LET W == SortedDesc(TimeoutWarnings)
                S1 == [Cur EXCEPT !.t[t].sent = @ \cup {W[tasks[t].wi]}]
            IN  Commit(WarnLoop(S1, t, tasks[t].wi + 1))
    /\ UNCHANGED <<stop_tasks, isolation_vars, last>>

\* the "player_eliminated" announcement returns
TimerElimResume(t) ==
    /\ tasks[t].pc = "ann_elim"
    /\ IF tasks[t].must_cancel
       THEN Commit(Finish(Cur, t))
       ELSE Commit(AfterElimination(Cur, t))
    /\ UNCHANGED <<stop_tasks, isolation_vars, last>>

\* the "game_ended" announcement returns: stop_game(chat_id) at line 327
TimerEndResume(t) ==
    LET c == tasks[t].chat
        S1 == IF c \in DOMAIN games
              THEN [Cur EXCEPT !.g = StopGameGames(c),
                               !.t = StopGameTasks(tasks, c),
                               !.k = MarkStaleCallers(callers, c),
                               !.m = StopGameMetrics(c)]
              ELSE Cur
    IN  /\ tasks[t].pc = "ann_end"
        /\ IF tasks[t].must_cancel
           THEN Commit(Finish(Cur, t))
           ELSE Commit(Finish(S1, t))
        /\ UNCHANGED <<stop_tasks, isolation_vars, last>>

\* the "next_turn" announcement returns: start_turn_timer(chat_id) at line 352;
\* what it raises is caught and logged at line 354
TimerNextResume(t) ==
    LET c == tasks[t].chat
        plan == StartPlan(Cur, c, t)
    IN  /\ tasks[t].pc = "ann_next"
        /\ IF tasks[t].must_cancel
           THEN Commit(Finish(Cur, t))
           ELSE IF c \notin DOMAIN games \/ plan.next = "false"
                THEN Commit(Finish(Cur, t))
                ELSE IF plan.next = "self_await"
                     THEN Commit([plan.S EXCEPT !.t[t].pc = "self_await",
                                                !.t[t].must_cancel = TRUE])
                     ELSE IF plan.next = "await_task"
                          THEN Commit([plan.S EXCEPT !.t[t].pc = "await_task",
                                                     !.t[t].awaiting = plan.awaiting])
                          ELSE IF plan.next = "raises"
                               THEN Commit(Finish(plan.S, t))
                               ELSE /\ HasFreeTask(tasks)
                                    /\ Commit(Finish(CreateTimer(plan.S, c, FALSE), t))
        /\ UNCHANGED <<stop_tasks, isolation_vars, last>>

(* The await at line 75 ends inside the timer task: with the CancelledError *)
(* of its own cancel() (caught at line 76) or with the end of the awaited  *)
(* task.  Then line 79 deletes the key, which raises KeyError when another *)
(* coroutine has removed it; _handle_timeout catches that at line 354.     *)
TimerAwaitResume(t) ==
    LET c == tasks[t].chat
        S1 == [Cur EXCEPT !.t[t].must_cancel = FALSE, !.a = DictDel(@, c)]
    IN  /\ \/ tasks[t].pc = "self_await"
           \/ tasks[t].pc = "await_task" /\ TaskDone(tasks, tasks[t].awaiting)
        /\ IF c \notin DOMAIN active_timers
           THEN Commit(Finish(Cur, t))
           ELSE /\ HasFreeTask(tasks)
                /\ Commit(Finish(CreateTimer(S1, c, tasks[t].stale), t))
        /\ UNCHANGED <<stop_tasks, isolation_vars, last>>

\* a registered timer in an unfinished state: created and not run, or in its sleep
RegisteredUnfinished(c) ==
    /\ c \in DOMAIN active_timers
    /\ tasks[active_timers[c]].pc \in {"created", "sleep"}
    /\ ~tasks[active_timers[c]].must_cancel

\* GameTimerManager.start_turn_timer(chat_id) called by a handler of the transport
StartTurnTimer(k, c) ==
    LET plan == StartPlan(Cur, c, None)
    IN  /\ callers[k].pc = "idle"
        /\ IF c \notin DOMAIN games \/ plan.next = "false"
           THEN /\ last' = Call("start_turn_timer", c, 0, "False")
                /\ UNCHANGED <<games, game_metrics, active_timers, tasks, callers>>
           ELSE IF plan.next = "await_task"
                THEN /\ Commit([plan.S EXCEPT !.k[k] =
                                   [IdleCaller EXCEPT !.op = "start_turn_timer", !.chat = c,
                                                      !.pc = "await",
                                                      !.awaiting = plan.awaiting]])
                     /\ UNCHANGED last
                ELSE IF plan.next = "raises"
                     THEN /\ Commit(plan.S)
                          /\ last' = Call("start_turn_timer", c, 0, "RuntimeError")
                     ELSE /\ HasFreeTask(tasks)
                          /\ Commit(CreateTimer(plan.S, c, FALSE))
                          /\ last' = Call("start_turn_timer", c, 0, "True")
        /\ UNCHANGED <<stop_tasks, isolation_vars>>

\* lines 261-263: game_state.timer_task = None when the chat has a game
ClearTimerTask(gs, c) ==
    IF c \in DOMAIN gs THEN [gs EXCEPT ![c].timer_task = None] ELSE gs

\* GameTimerManager.cancel_turn_timer(chat_id) called by a handler of the transport
CancelTurnTimer(k, c) ==
    LET ts == MarkCancelCalled(tasks, c)
        reg == RegisteredUnfinished(c)
    IN  /\ callers[k].pc = "idle"
        /\ IF c \in DOMAIN active_timers
           THEN IF AwaitRaises(tasks, active_timers[c])
                THEN /\ tasks' = Cancel(ts, active_timers[c])
                     /\ last' = [Call("cancel_turn_timer", c, 0, "RuntimeError") EXCEPT !.reg = reg]
                     /\ UNCHANGED <<games, active_timers, callers>>
                ELSE IF ~TaskDone(tasks, active_timers[c])
                THEN /\ tasks' = Cancel(ts, active_timers[c])
                     /\ callers' = [callers EXCEPT ![k] =
                                       [IdleCaller EXCEPT !.op = "cancel_turn_timer", !.chat = c,
                                                          !.pc = "await",
                                                          !.awaiting = active_timers[c],
                                                          !.reg = reg]]
                     /\ UNCHANGED <<games, active_timers, last>>
                ELSE /\ active_timers' = DictDel(active_timers, c)
                     /\ games' = ClearTimerTask(games, c)
                     /\ tasks' = ts
                     /\ last' = [Call("cancel_turn_timer", c, 0, "True") EXCEPT !.reg = reg]
                     /\ UNCHANGED callers
           ELSE /\ games' = ClearTimerTask(games, c)
                /\ tasks' = ts
                /\ last' = [Call("cancel_turn_timer", c, 0, "False") EXCEPT !.reg = reg]
                /\ UNCHANGED <<active_timers, callers>>
        /\ UNCHANGED <<game_metrics, stop_tasks, isolation_vars>>

(* The await at line 75 ends in a caller of the transport.  Line 79 deletes *)
(* the key and raises KeyError when the awaited task's finally block has   *)
(* already deleted it; nothing on the way up catches that.                 *)
CallerResume(k) ==
    LET c == callers[k].chat
        op == callers[k].op
        S1 == [Cur EXCEPT !.a = DictDel(@, c), !.k[k] = IdleCaller]
    IN  /\ callers[k].pc = "await"
        /\ op \in {"start_turn_timer", "cancel_turn_timer"}
        /\ TaskDone(tasks, callers[k].awaiting)
        /\ IF c \notin DOMAIN active_timers
           THEN /\ last' = [Call(op, c, 0, "KeyError") EXCEPT !.reg = callers[k].reg]
                /\ callers' = [callers EXCEPT ![k] = IdleCaller]
                /\ UNCHANGED <<games, game_metrics, active_timers, tasks>>
           ELSE IF op = "start_turn_timer"
                THEN /\ HasFreeTask(tasks)
                     /\ Commit(CreateTimer(S1, c, callers[k].stale))
                     /\ last' = Call(op, c, 0, "True")
                ELSE /\ Commit([S1 EXCEPT !.g = ClearTimerTask(@, c)])
                     /\ last' = [Call(op, c, 0, "True") EXCEPT !.reg = callers[k].reg]
        /\ UNCHANGED <<stop_tasks, isolation_vars>>

\* list(self._active_timers.keys()): the keys of the dict; the model has the
\* chats of Chats only and lists them by their numbers
RECURSIVE KeysOf(_)
KeysOf(d) ==
    IF DOMAIN d = {}
    THEN <<>>
    ELSE LET c == CHOOSE x \in DOMAIN d : \A y \in DOMAIN d : x <= y
         IN  <<c>> \o KeysOf(DictDel(d, c))

(* The for loop of cancel_all_timers at lines 115-116 from the chats todo,  *)
(* run by the caller k for the call op, up to the await at line 75 inside  *)
(* cancel_timer or to the end of the loop.  mark tells whether the         *)
(* bookkeeping of the game timers (cancel_called) is kept.  The caller is  *)
(* marked "raised" when the await raises RuntimeError, which ends the call.*)
RECURSIVE CancelAllTimersFrom(_, _, _, _, _)
CancelAllTimersFrom(S, k, op, todo, mark) ==
    IF todo = <<>>
    THEN [S EXCEPT !.k[k] = IdleCaller]
    ELSE LET c == Head(todo)
             ts == IF mark THEN MarkCancelCalled(S.t, c) ELSE S.t
         IN  IF c \notin DOMAIN S.a
             THEN CancelAllTimersFrom([S EXCEPT !.t = ts], k, op, Tail(todo), mark)
             ELSE IF TaskDone(S.t, S.a[c])
                  THEN CancelAllTimersFrom([S EXCEPT !.t = ts, !.a = DictDel(@, c)],
                                           k, op, Tail(todo), mark)
                  ELSE IF AwaitRaises(S.t, S.a[c])
                  THEN [S EXCEPT !.t = Cancel(ts, S.a[c]),
                                 !.k[k] = [IdleCaller EXCEPT !.pc = "raised"]]
                  ELSE [S EXCEPT !.t = Cancel(ts, S.a[c]),
                                 !.k[k] = [IdleCaller EXCEPT !.op = op, !.chat = c,
                                                             !.pc = "await",
                                                             !.awaiting = S.a[c],
                                                             !.todo = Tail(todo)]]

\* a call of cancel_all_timers has run from the values S to the values S1:
\* last tells that it returned None or raised when the caller is not left waiting
CancelAllTimersStep(S1, k, op) ==
    /\ Commit([S1 EXCEPT !.k[k] = IF @.pc = "raised" THEN IdleCaller ELSE @])
    /\ IF S1.k[k].pc = "idle"
       THEN last' = Call(op, 0, 0, "None")
       ELSE IF S1.k[k].pc = "raised"
            THEN last' = Call(op, 0, 0, "RuntimeError")
            ELSE UNCHANGED last
    /\ UNCHANGED <<stop_tasks, isolation_vars>>

\* the await at line 75 ends in a caller inside cancel_all_timers: line 79
\* deletes the key, or raises KeyError when the finally block of the awaited
\* task has deleted it, which ends the loop; otherwise the loop goes on
CancelAllTimersResume(k) ==
    LET c == callers[k].chat
        op == callers[k].op
        mark == op = "cleanup"
    IN  /\ callers[k].pc = "await"
        /\ op \in {"cancel_all_timers", "cleanup"}
        /\ TaskDone(tasks, callers[k].awaiting)
        /\ IF c \notin DOMAIN active_timers
           THEN /\ last' = Call(op, c, 0, "KeyError")
                /\ callers' = [callers EXCEPT ![k] = IdleCaller]
                /\ UNCHANGED <<games, game_metrics, active_timers, tasks,
                               stop_tasks, isolation_vars>>
           ELSE CancelAllTimersStep(
                    CancelAllTimersFrom([Cur EXCEPT !.a = DictDel(@, c)], k, op,
                                        callers[k].todo, mark), k, op)

\* GameTimerManager.cleanup(), called by the shutdown of the bot: every
\* registered timer is cancelled and awaited; game_state.timer_task is kept
Cleanup(k) ==
    /\ callers[k].pc = "idle"
    /\ CancelAllTimersStep(
           CancelAllTimersFrom(Cur, k, "cleanup", KeysOf(active_timers), TRUE), k, "cleanup")

\* GameManager.set_timer_task(chat_id, timer_task) with a task of the model or None
SetTimerTask(c, t) ==
    /\ IF t = None THEN TRUE ELSE tasks[t].pc # "unused"
    /\ IF c \in DOMAIN games
       THEN /\ games' = [games EXCEPT ![c].timer_task = t]
            /\ last' = Call("set_timer_task", c, 0, "True")
       ELSE /\ last' = Call("set_timer_task", c, 0, "False")
            /\ UNCHANGED games
    /\ UNCHANGED <<game_metrics, stop_tasks, isolation_vars, active_timers, tasks, callers>>

NextTimer ==
    \/ \E c \in Chats, n \in 2..NumUsers : StartGame(c, n, "A")
    \/ \E c \in Chats : StopGame(c)
    \/ \E k \in CallerIds, c \in Chats : StartTurnTimer(k, c)
    \/ \E k \in CallerIds, c \in Chats : CancelTurnTimer(k, c)
    \/ \E k \in CallerIds : CallerResume(k)
    \/ \E k \in CallerIds : Cleanup(k)
    \/ \E k \in CallerIds : CancelAllTimersResume(k)
    \/ \E c \in Chats, t \in TaskIds \cup {None} : SetTimerTask(c, t)
    \/ \E t \in TaskIds : TimerRun(t)
    \/ \E t \in TaskIds, e \in 1..TurnTimeout : TimerWake(t, e)
    \/ \E t \in TaskIds : TimerWarnResume(t)
    \/ \E t \in TaskIds : TimerElimResume(t)
    \/ \E t \in TaskIds : TimerEndResume(t)
    \/ \E t \in TaskIds : TimerNextResume(t)
    \/ \E t \in TaskIds : TimerAwaitResume(t)

SpecTimer == Init /\ [][NextTimer]_vars

(***************************************************************************)
(* Properties of the timers.                                               *)
(***************************************************************************)
\* a countdown that is counting: not finished, not in its timeout callback,
\* and no cancellation requested
LiveTimer(t) == Pending(tasks[t]) /\ ~tasks[t].must_cancel

\* C1: at every instant each chat has at most one live countdown task; starting
\* a timer for a chat that has one cancels the earlier timer first.
C1_AtMostOneLiveTimer ==
    \A c \in Chats : Cardinality({t \in TaskIds : tasks[t].chat = c /\ LiveTimer(t)}) <= 1

\* C2: no warning callback and no timeout callback of a timer is invoked after a
\* later start_turn_timer for the same chat was called while that timer was pending.
C2_NoCallbackAfterLaterStart ==
    \A t \in TaskIds : ~tasks[t].late_cb

\* C3: the timeout callback of a timer is never invoked after cancel was called
\* for its chat before the duration elapsed.
C3_NoTimeoutAfterCancel ==
    \A t \in TaskIds : ~tasks[t].late_to

\* C4: cancelling a registered timer in an unfinished state (created and not run,
\* or in its sleep) returns True without raising and leaves the key unregistered;
\* a cancel that finds no registered timer returns False.
C4_CancelReturnsTrue ==
    last.op = "cancel_turn_timer" =>
        /\ last.reg => (last.ret = "True" /\ last.chat \notin DOMAIN active_timers)
        /\ last.ret \in {"True", "False"}

\* a step taken by timer task t
TimerStep(t) ==
    \/ TimerRun(t)
    \/ \E e \in 1..TurnTimeout : TimerWake(t, e)
    \/ TimerWarnResume(t)
    \/ TimerElimResume(t)
    \/ TimerEndResume(t)
    \/ TimerNextResume(t)
    \/ TimerAwaitResume(t)

\* C19: a timer task that was unfinished when stop_game returned for its chat
\* takes no later step that changes the registry or a game (no elimination, no
\* game ended) or that creates a timer task, also when a new game has been
\* started for the chat in the meantime.
C19_NoTimerEffectAfterStop ==
    [][\A t \in TaskIds :
         tasks[t].stopped /\ TimerStep(t)
         => /\ games' = games
            /\ \A n \in TaskIds : tasks[n].pc = "unused" => tasks'[n].pc = "unused"]_vars

(***************************************************************************)
(* TimerManager used directly, with callbacks of the caller's own: a plain *)
(* warning callback that returns or raises, and a timeout callback that    *)
(* returns, raises, or is a coroutine function suspended in an await.      *)
(* calls is the record of the callbacks a run invoked: the warning offset  *)
(* of each warning callback, 0 for the timeout callback.  cb is how the    *)
(* timeout callback ended.                                                 *)
(***************************************************************************)
PlainWarnings == <<2, 1>>     \* warning_times passed to start_turn_timer
PlainOffsets == {PlainWarnings[i] : i \in DOMAIN PlainWarnings}

\* the for loop at lines 149-167 with a plain warning callback, which raises
\* for the offsets in raising: warnings_sent.add at line 162 is skipped then
RECURSIVE PlainWarnLoop(_, _, _, _)
PlainWarnLoop(S, t, i, raising) ==
    LET tr == S.t[t]
        W == SortedDesc(PlainWarnings)
        remaining == TurnTimeout - tr.elapsed
        S1 == [S EXCEPT !.t[t].calls = Append(@, W[i])]
    IN  IF i > Len(W)
        THEN [S EXCEPT !.t[t].pc = "sleep"]
        ELSE IF remaining <= W[i] /\ W[i] \notin tr.sent /\ remaining > 0
             THEN IF W[i] \in raising
                  THEN PlainWarnLoop(S1, t, i + 1, raising)
                  ELSE PlainWarnLoop([S1 EXCEPT !.t[t].sent = @ \cup {W[i]}], t, i + 1, raising)
             ELSE PlainWarnLoop(S, t, i + 1, raising)

\* lines 176-186 after the timeout callback returned or raised (the exception
\* is caught at line 185), then the finally block at lines 194-197
AfterPlainCallback(S, t, out) == Finish([S EXCEPT !.t[t].cb = out], t)

\* line 178 or 180: the timeout callback is invoked
PlainTimeoutCallback(S, t, out) ==
    LET S1 == [S EXCEPT !.t[t].calls = Append(@, 0)]
    IN  IF out = "suspends"
        THEN [S1 EXCEPT !.t[t].pc = "cb"]
        ELSE AfterPlainCallback(S1, t, out)

\* the timer task takes its first step
PlainRun(t, raising) ==
    /\ tasks[t].pc = "created"
    /\ IF tasks[t].must_cancel
       THEN Commit(EndUnstarted(Cur, t))
       ELSE Commit(PlainWarnLoop(Cur, t, 1, raising))
    /\ UNCHANGED <<stop_tasks, isolation_vars, last>>

\* sleep(1) returns; elapsed is read from the clock: at least one second more
PlainWake(t, e, raising, out) ==
    /\ tasks[t].pc = "sleep"
    /\ e > tasks[t].elapsed
    /\ IF tasks[t].must_cancel
       THEN Commit(Finish(Cur, t))
       ELSE LET S1 == [Cur EXCEPT !.t[t].elapsed = e]
            IN  IF e < TurnTimeout
                THEN Commit(PlainWarnLoop(S1, t, 1, raising))
                ELSE Commit(PlainTimeoutCallback(S1, t, out))
    /\ UNCHANGED <<stop_tasks, isolation_vars, last>>

\* the await inside the timeout callback ends: with CancelledError when the task
\* was cancelled meanwhile, which ends the callback and the task (lines 188-190)
PlainCallbackResume(t, out) ==
    /\ tasks[t].pc = "cb"
    /\ out \in {"returns", "raises"}
    /\ IF tasks[t].must_cancel
       THEN Commit(AfterPlainCallback(Cur, t, "cancelled"))
       ELSE Commit(AfterPlainCallback(Cur, t, out))
    /\ UNCHANGED <<stop_tasks, isolation_vars, last>>

\* TimerManager.cancel_timer(chat_id) up to the await at line 75 or its return
PlainCancel(k, c) ==
    /\ callers[k].pc = "idle"
    /\ IF c \in DOMAIN active_timers
       THEN IF AwaitRaises(tasks, active_timers[c])
            THEN /\ tasks' = Cancel(tasks, active_timers[c])
                 /\ last' = Call("cancel_timer", c, 0, "RuntimeError")
                 /\ UNCHANGED <<active_timers, callers>>
            ELSE IF ~TaskDone(tasks, active_timers[c])
            THEN /\ tasks' = Cancel(tasks, active_timers[c])
                 /\ callers' = [callers EXCEPT ![k] =
                                   [IdleCaller EXCEPT !.op = "cancel_timer", !.chat = c,
                                                      !.pc = "await",
                                                      !.awaiting = active_timers[c],
                                                      !.reg = tasks[active_timers[c]].pc = "cb"]]
                 /\ UNCHANGED <<active_timers, last>>
            ELSE /\ active_timers' = DictDel(active_timers, c)
                 /\ last' = Call("cancel_timer", c, 0, "True")
                 /\ UNCHANGED <<tasks, callers>>
       ELSE /\ last' = Call("cancel_timer", c, 0, "False")
            /\ UNCHANGED <<active_timers, tasks, callers>>
    /\ UNCHANGED <<games, game_metrics, stop_tasks, isolation_vars>>

\* TimerManager.start_turn_timer(chat_id, ...) up to the await in cancel_timer
\* or to the registration of the new task
PlainStart(k, c) ==
    /\ callers[k].pc = "idle"
    /\ IF c \in DOMAIN active_timers /\ AwaitRaises(tasks, active_timers[c])
       THEN /\ tasks' = Cancel(tasks, active_timers[c])
            /\ last' = Call("start_timer", c, 0, "RuntimeError")
            /\ UNCHANGED <<games, game_metrics, active_timers, callers>>
       ELSE IF c \in DOMAIN active_timers /\ ~TaskDone(tasks, active_timers[c])
       THEN /\ tasks' = Cancel(tasks, active_timers[c])
            /\ callers' = [callers EXCEPT ![k] =
                              [IdleCaller EXCEPT !.op = "start_timer", !.chat = c,
                                                 !.pc = "await",
                                                 !.awaiting = active_timers[c],
                                                 !.reg = tasks[active_timers[c]].pc = "cb"]]
            /\ UNCHANGED <<games, game_metrics, active_timers, last>>
       ELSE /\ HasFreeTask(tasks)
            /\ Commit(CreateTimer([Cur EXCEPT !.a = DictDel(@, c)], c, FALSE))
            /\ last' = Call("start_timer", c, 0, "Task")
    /\ UNCHANGED <<stop_tasks, isolation_vars>>

\* the await at line 75 ends; line 79 deletes the key, and raises KeyError when
\* the finally block of the awaited task has already deleted it
PlainCallerResume(k) ==
    LET c == callers[k].chat
        op == callers[k].op
        S1 == [Cur EXCEPT !.a = DictDel(@, c), !.k[k] = IdleCaller]
    IN  /\ callers[k].pc = "await"
        /\ op \in {"start_timer", "cancel_timer"}
        /\ TaskDone(tasks, callers[k].awaiting)
        /\ IF c \notin DOMAIN active_timers
           THEN /\ last' = [Call(op, c, 0, "KeyError") EXCEPT !.reg = callers[k].reg]
                /\ callers' = [callers EXCEPT ![k] = IdleCaller]
                /\ UNCHANGED <<games, game_metrics, active_timers, tasks>>
           ELSE IF op = "start_timer"
                THEN /\ HasFreeTask(tasks)
                     /\ Commit(CreateTimer(S1, c, FALSE))
                     /\ last' = Call(op, c, 0, "Task")
                ELSE /\ Commit(S1)
                     /\ last' = [Call(op, c, 0, "True") EXCEPT !.reg = callers[k].reg]
        /\ UNCHANGED <<stop_tasks, isolation_vars>>

\* TimerManager.cancel_all_timers() up to the await at line 75 or its return
CancelAllTimers(k) ==
    /\ callers[k].pc = "idle"
    /\ CancelAllTimersStep(
           CancelAllTimersFrom(Cur, k, "cancel_all_timers", KeysOf(active_timers), FALSE),
           k, "cancel_all_timers")

\* TimerManager.cleanup_completed_timers(): the keys whose task is done are
\* deleted; the coroutine has no await and returns None
CleanupCompletedTimers ==
    /\ active_timers' = [c \in {x \in DOMAIN active_timers : ~TaskDone(tasks, active_timers[x])}
                            |-> active_timers[c]]
    /\ last' = Call("cleanup_completed_timers", 0, 0, "None")
    /\ UNCHANGED <<games, game_metrics, stop_tasks, isolation_vars, tasks, callers>>

NextPlain ==
    \/ \E k \in CallerIds, c \in Chats : PlainStart(k, c)
    \/ \E k \in CallerIds, c \in Chats : PlainCancel(k, c)
    \/ \E k \in CallerIds : PlainCallerResume(k)
    \/ \E k \in CallerIds : CancelAllTimers(k)
    \/ \E k \in CallerIds : CancelAllTimersResume(k)
    \/ CleanupCompletedTimers
    \/ \E t \in TaskIds, raising \in SUBSET PlainOffsets : PlainRun(t, raising)
    \/ \E t \in TaskIds, e \in 1..TurnTimeout, raising \in SUBSET PlainOffsets,
          out \in {"returns", "raises", "suspends"} : PlainWake(t, e, raising, out)
    \/ \E t \in TaskIds, out \in {"returns", "raises"} : PlainCallbackResume(t, out)

SpecPlain == Init /\ [][NextPlain]_vars

\* C24: in one run of a timer the warning callback is invoked at most once for
\* each configured offset, in descending order of the offsets, and never after
\* the timeout callback, also when a warning callback raises: the record of the
\* invoked callbacks (0 for the timeout callback) is strictly descending.
C24_WarningsOncePerOffset ==
    \A t \in TaskIds :
        \A i, j \in DOMAIN tasks[t].calls :
            i < j => tasks[t].calls[i] > tasks[t].calls[j]

\* an earlier timer of the chat ended in a timeout callback that raised
RaisedBefore(c) ==
    \E t \in TaskIds : tasks[t].chat = c /\ tasks[t].pc = "done" /\ tasks[t].cb = "raises"

\* C25: when a timeout callback raises, the timer still reaches its terminal
\* state and its key is no longer active, and start and cancel calls that
\* return for that key afterwards do not raise.
C25_RaisingCallbackContained ==
    /\ \A t \in TaskIds :
          tasks[t].cb = "raises"
          => /\ tasks[t].pc = "done"
             /\ ~(tasks[t].chat \in DOMAIN active_timers /\ active_timers[tasks[t].chat] = t)
    /\ (last.op \in {"start_timer", "cancel_timer"} /\ RaisedBefore(last.chat))
       => last.ret # "KeyError"

\* C26: when cancel_timer is called for a key whose timeout callback has started,
\* the callback is not interrupted and runs to completion, and the cancel call
\* returns without raising.
C26_CancelLeavesCallbackRunning ==
    /\ \A t \in TaskIds : tasks[t].cb # "cancelled"
    /\ (last.op = "cancel_timer" /\ last.reg) => last.ret # "KeyError"

(***************************************************************************)
(* ChatIsolationManager.  A coroutine is "waiting" inside lock.acquire(),  *)
(* "inside" while its operation runs (suspended in an await of the         *)
(* operation), "idle" otherwise.  A waiter is the future that acquire()    *)
(* appended to _waiters, with woken set by _wake_up_first.                 *)
(***************************************************************************)
\* a Lock object no coroutine uses and chat_locks does not hold
LockInUse(l) ==
    \/ \E c \in DOMAIN chat_locks : chat_locks[c] = l
    \/ \E o \in OpIds : lock_ops[o].pc # "idle" /\ lock_ops[o].lock = l
FreshLock == CHOOSE l \in LockIds : ~LockInUse(l) /\ \A m \in 1..(l - 1) : LockInUse(m)

\* Lock._wake_up_first: set the result of the first future in _waiters unless
\* it is done; the futures behind it are not looked at
WakeUpFirst(ws) ==
    IF ws # <<>> /\ ~ws[1].woken
    THEN [ws EXCEPT ![1].woken = TRUE]
    ELSE ws

\* Lock.release, called by __aexit__ of "async with lock"
Release(lk) == [locked |-> FALSE, waiters |-> WakeUpFirst(lk.waiters)]

\* get_chat_lock(chat_id) called on its own: the lock of the chat, created
\* unlocked when the chat has none; last.ret tells whether the lock is held
GetChatLock(c) ==
    LET l == IF c \in DOMAIN chat_locks THEN chat_locks[c] ELSE FreshLock
        lk == IF c \in DOMAIN chat_locks THEN locks[l] ELSE NewLock
    IN  /\ chat_locks' = DictSet(chat_locks, c, l)
        /\ locks' = [locks EXCEPT ![l] = lk]
        /\ last' = Call("get_chat_lock", c, 0, IF lk.locked THEN "locked" ELSE "unlocked")
        /\ UNCHANGED <<games, game_metrics, stop_tasks, active_timers, tasks, callers, lock_ops>>

\* execute_with_chat_lock(chat_id, operation): get_chat_lock at lines 393-399,
\* then lock.acquire() up to its await or, when the lock is free and nobody
\* waits for it, up to the first await of the operation
ExecuteWithChatLock(o, c) ==
    LET l == IF c \in DOMAIN chat_locks THEN chat_locks[c] ELSE FreshLock
        lk == IF c \in DOMAIN chat_locks THEN locks[l] ELSE NewLock
    IN  /\ lock_ops[o].pc = "idle"
        /\ chat_locks' = DictSet(chat_locks, c, l)
        /\ IF ~lk.locked /\ lk.waiters = <<>>
           THEN /\ locks' = [locks EXCEPT ![l] = [lk EXCEPT !.locked = TRUE]]
                /\ lock_ops' = [lock_ops EXCEPT ![o] = [chat |-> c, pc |-> "inside", lock |-> l]]
           ELSE /\ locks' = [locks EXCEPT ![l] =
                                [lk EXCEPT !.waiters = Append(@, [op |-> o, woken |-> FALSE])]]
                /\ lock_ops' = [lock_ops EXCEPT ![o] = [chat |-> c, pc |-> "waiting", lock |-> l]]
        /\ UNCHANGED <<games, game_metrics, stop_tasks, active_timers, tasks, callers, last>>

\* the future of a waiting coroutine has its result: acquire() removes it from
\* _waiters, sets _locked and returns, and the operation runs to its first await
LockAcquired(o) ==
    LET l == lock_ops[o].lock
        ws == locks[l].waiters
    IN  /\ lock_ops[o].pc = "waiting"
        /\ \E i \in DOMAIN ws : ws[i].op = o /\ ws[i].woken
        /\ locks' = [locks EXCEPT ![l] =
                        [locked |-> TRUE,
                         waiters |-> SelectSeq(ws, LAMBDA w : w.op # o)]]
        /\ lock_ops' = [lock_ops EXCEPT ![o].pc = "inside"]
        /\ UNCHANGED <<games, game_metrics, stop_tasks, active_timers, tasks, callers,
                       chat_locks, last>>

\* the operation returns or raises: __aexit__ releases the lock either way
OperationEnds(o, out) ==
    LET l == lock_ops[o].lock
    IN  /\ lock_ops[o].pc = "inside"
        /\ locks' = [locks EXCEPT ![l] = Release(@)]
        /\ lock_ops' = [lock_ops EXCEPT ![o] = IdleOp]
        /\ last' = Call("execute_with_chat_lock", lock_ops[o].chat, o, out)
        /\ UNCHANGED <<games, game_metrics, stop_tasks, active_timers, tasks, callers,
                       chat_locks>>

\* cleanup_old_locks(hours): old are the chats whose chat_activity entry is
\* older than the cutoff; whether their lock is held or waited for is not looked at
CleanupOldLocks(old) ==
    /\ old # {}
    /\ old \subseteq DOMAIN chat_locks
    /\ chat_locks' = WithoutOldLocks(chat_locks, old)
    /\ last' = Call("cleanup_old_locks", 0, 0, "")
    /\ UNCHANGED <<games, game_metrics, stop_tasks, active_timers, tasks, callers,
                   locks, lock_ops>>

NextIsolation ==
    \/ \E c \in LockChats : GetChatLock(c)
    \/ \E o \in OpIds, c \in LockChats : ExecuteWithChatLock(o, c)
    \/ \E o \in OpIds : LockAcquired(o)
    \/ \E o \in OpIds, out \in {"returns", "raises"} : OperationEnds(o, out)
    \/ \E old \in SUBSET LockChats : CleanupOldLocks(old)

SpecIsolation == Init /\ [][NextIsolation]_vars

\* the coroutines whose operation is running under the lock of chat c
InsideLock(c) == {o \in OpIds : lock_ops[o].pc = "inside" /\ lock_ops[o].chat = c}

\* C27: at any instant at most one operation is executing inside
\* execute_with_chat_lock for a given chat id, a lock is held only while an
\* operation runs under it (it is released when the operation returns or
\* raises), and a coroutine waits only for a lock used for its own chat.
C27_OneOperationPerChat ==
    /\ \A c \in LockChats : Cardinality(InsideLock(c)) <= 1
    /\ \A l \in LockIds :
          locks[l].locked => \E o \in OpIds : lock_ops[o].pc = "inside" /\ lock_ops[o].lock = l
    /\ \A o, q \in OpIds :
          (lock_ops[o].pc = "waiting" /\ lock_ops[q].pc # "idle" /\ lock_ops[q].lock = lock_ops[o].lock)
          => lock_ops[q].chat = lock_ops[o].chat

(***************************************************************************)
(* The background loops of ConcurrentGameManager next to the operations    *)
(* that create, stop and clean up rooms.                                   *)
(***************************************************************************)
\* one iteration of _cleanup_loop: sleep(300) returns and a line is logged.
\* idle are the rooms whose metrics entry is older than the idle threshold.
CleanupLoopIteration(idle) ==
    /\ idle \subseteq DOMAIN games \cap game_metrics
    /\ last' = [op |-> "cleanup_loop", chat |-> 0, user |-> 0, ret |-> "",
                cur |-> FALSE, ok |-> FALSE, reg |-> FALSE, dict |-> "", idle |-> idle]
    /\ UNCHANGED <<games, game_metrics, stop_tasks, isolation_vars, active_timers, tasks, callers>>

\* lines 370-377 of _monitoring_loop in a monitor with the given max_games: the
\* entries added to resource_warnings at the status of m metrics entries
MonitoringWarnings(m, max_games) ==
    LET status == GetResourceStatusFor(Cardinality(m), max_games)
    IN  IF status \in {"high", "critical"}
        THEN <<[level |-> status, active_count |-> Cardinality(m), max_games |-> max_games]>>
        ELSE <<>>

\* one iteration of _monitoring_loop: sleep(600) returns, the status is logged
\* and, when it is high or critical, a warning is added to resource_warnings
MonitoringLoopIteration ==
    /\ last' = [Call("monitoring_loop", 0, 0,
                      GetResourceStatusFor(Cardinality(game_metrics), RoomCeiling))
                   EXCEPT !.warnings = MonitoringWarnings(game_metrics, RoomCeiling)]
    /\ UNCHANGED <<games, game_metrics, stop_tasks, isolation_vars, active_timers, tasks, callers>>

NextSweep ==
    \/ \E c \in Rooms, n \in 1..2 : \E idle \in IdleSets(n, RoomCeiling), old \in OldLockSets(n, RoomCeiling) :
          StartGameFor(c, n, "A", RoomCeiling, idle, old)
    \/ \E c \in Rooms : StopGame(c)
    \/ \E c \in Rooms : HandleTimeoutCall(c)
    \/ \E idle \in SUBSET Rooms : CleanupInactiveGamesCall(idle)
    \/ \E idle \in SUBSET Rooms : CleanupLoopIteration(idle)
    \/ MonitoringLoopIteration
    \/ \E c \in LockChats : GetChatLock(c)

SpecSweep == Init /\ [][NextSweep]_vars

\* C28: a room whose last tracked activity is older than the idle threshold is
\* stopped and removed from the registry by the background sweep: after an
\* iteration of the cleanup loop none of the rooms that were idle is registered.
C28_SweepRemovesIdleRooms ==
    last.op = "cleanup_loop" => last.idle \cap DOMAIN games = {}

(***************************************************************************)
(* GameState is a dataclass with public fields: a caller can leave any     *)
(* integer in current_player_index and any list in players, as the tests   *)
(* of corrupted rooms do.                                                  *)
(***************************************************************************)
\* the indexes tried: from two below -len(players) to beyond the end
PlayerIndexes == (0 - NumUsers - 1)..(NumUsers + 1)

\* game_state.current_player_index = i
SetCurrentPlayerIndex(c, i) ==
    /\ c \in DOMAIN games
    /\ games' = [games EXCEPT ![c].current_player_index = i]
    /\ last' = Call("set_current_player_index", c, 0, "")
    /\ UNCHANGED <<game_metrics, stop_tasks, isolation_vars, active_timers, tasks, callers>>

\* game_state.players = []
ClearPlayers(c) ==
    /\ c \in DOMAIN games
    /\ games' = [games EXCEPT ![c].players = <<>>]
    /\ last' = Call("clear_players", c, 0, "")
    /\ UNCHANGED <<game_metrics, stop_tasks, isolation_vars, active_timers, tasks, callers>>

\* game_state.get_current_player(): last.user is the player returned, last.ret
\* is "Player", "None" or "IndexError"
GetCurrentPlayerCall(c) ==
    /\ c \in DOMAIN games
    /\ last' = IF GetCurrentPlayerRaises(games[c])
               THEN Call("get_current_player", c, 0, "IndexError")
               ELSE IF GetCurrentPlayer(games[c]) = NoPlayer
                    THEN Call("get_current_player", c, 0, "None")
                    ELSE Call("get_current_player", c, GetCurrentPlayer(games[c]).user_id, "Player")
    /\ UNCHANGED <<games, game_metrics, stop_tasks, isolation_vars, active_timers, tasks, callers>>

NextIndex ==
    \/ \E c \in Chats, n \in 1..NumUsers : StartGame(c, n, "A")
    \/ \E c \in Chats, i \in PlayerIndexes : SetCurrentPlayerIndex(c, i)
    \/ \E c \in Chats : ClearPlayers(c)
    \/ \E c \in Chats : GetCurrentPlayerCall(c)
    \/ \E c \in Chats, u \in Users, w \in RawWords, d \in DictAnswers : ProcessWord(c, u, w, d)
    \/ \E c \in Chats : StopGame(c)

SpecIndex == Init /\ [][NextIndex]_vars

\* current_player_index of the room is outside 0..len(players)-1
IndexOutOfRange(g) ==
    g.current_player_index < 0 \/ g.current_player_index >= Len(g.players)

\* C29: get_current_player returns None, without raising, for every
\* current_player_index outside 0..len(players)-1, negative indexes and an empty
\* player list included, and no word submitted against such a room is accepted.
C29_OutOfRangeIndexGivesNone ==
    \A c \in DOMAIN games :
        (last.chat = c /\ IndexOutOfRange(games[c]))
        => /\ last.op = "get_current_player" => last.ret = "None"
           /\ last.op = "process_word" => last.ret # VALID_WORD

\* the word passed to get_next_game_state for game g completes a round: with it
\* the words counted since the last round boundary reach the number of players
CompletesRound(g) == g.current_round_turns + 1 >= Len(g.players)

\* C30: a word accepted by get_next_game_state completes a round exactly when
\* the words counted since the last round boundary reach the current number of
\* players; required_length grows by exactly 1 when the round completed is an
\* even-numbered one, and is unchanged by every other accepted word.
C30_LengthGrowsEverySecondRound ==
    [][\A c \in Chats, w \in NormalizedWords :
         GetNextGameStateCall(c, w)
         => LET g == games[c]
                h == games'[c]
            IN  /\ h.rounds_completed =
                      IF CompletesRound(g) THEN g.rounds_completed + 1 ELSE g.rounds_completed
                /\ h.current_round_turns =
                      IF CompletesRound(g) THEN 0 ELSE g.current_round_turns + 1
                /\ h.required_length =
                      IF CompletesRound(g) /\ h.rounds_completed % 2 = 0
                      THEN g.required_length + 1
                      ELSE g.required_length]_vars

\* a second round has been completed in a room of at least two players and
\* the required length has grown once
C30_Witness ==
    \E c \in DOMAIN games :
        /\ games[c].rounds_completed = 2
        /\ Len(games[c].players) >= 2
        /\ games[c].required_length = MinWordLength + 1

\* get_winner(chat_id) on a registered game: the only listed player, or None
GetWinner(g) == IF Len(g.players) = 1 THEN g.players[1] ELSE NoPlayer

\* C31: after a timeout elimination the room is marked ended exactly when at
\* most one of its players is active (should_end_game), inactive players that
\* are still listed not counted, and the winner named for an ended room is its
\* sole remaining active player, if there is one.
C31_EndedWhenOneActivePlayerLeft ==
    (last.op = "handle_timeout" /\ last.ret = "Player" /\ last.chat \in DOMAIN games)
    => LET g == games[last.chat]
       IN  /\ ~g.is_active <=> ShouldEndGame(g)
           /\ ~g.is_active
              => \A i \in 1..Len(g.players) : g.players[i].is_active => GetWinner(g) = g.players[i]

\* C32: when the timer task of a timeout that left the room active finishes
\* after having started the timer of the next turn, that new timer is the one
\* registered under the room's key (is_timer_active is true and a later cancel
\* reaches it), and it is the only live timer of the room.
C32_RestartedTimerStaysRegistered ==
    [][\A t, n \in TaskIds :
         (/\ TimerNextResume(t) \/ TimerAwaitResume(t)
          /\ tasks'[t].pc = "done"
          /\ tasks[n].pc = "unused"
          /\ tasks'[n].pc = "created")
         => /\ tasks[t].chat \in DOMAIN active_timers'
            /\ active_timers'[tasks[t].chat] = n
            /\ \A u \in TaskIds \ {n} :
                  ~(/\ tasks'[u].chat = tasks[t].chat
                    /\ Pending(tasks'[u])
                    /\ ~tasks'[u].must_cancel)]_vars

(***************************************************************************)
(* TurnProcessor.handle_turn_advancement: what the message handler does    *)
(* after process_word returned VALID_WORD.                                 *)
(***************************************************************************)
\* lines 135-141 after cancel_turn_timer returned: the room is looked up and
\* start_turn_timer(chat_id) creates the timer of the next turn
AdvanceCreates(S, c) == GameActive(S.g, c) /\ StartPlan(S, c, None).next = "create"
AdvanceAfterCancel(S, c) ==
    IF ~GameActive(S.g, c)
    THEN [S |-> S, ret |-> "None"]
    ELSE IF AdvanceCreates(S, c)
         THEN [S |-> CreateTimer(StartPlan(S, c, None).S, c, FALSE), ret |-> "GameState"]
         ELSE [S |-> StartPlan(S, c, None).S, ret |-> "GameState"]

\* handle_turn_advancement(chat_id) up to the await inside cancel_timer, or to
\* its return when cancel_timer does not have to wait for a task; the
\* RuntimeError of that await is caught at line 144 and None is returned
HandleTurnAdvancement(k, c) ==
    LET S1 == [Cur EXCEPT !.a = DictDel(@, c), !.g = ClearTimerTask(@, c)]
        r == AdvanceAfterCancel(S1, c)
    IN  /\ callers[k].pc = "idle"
        /\ IF c \in DOMAIN active_timers /\ AwaitRaises(tasks, active_timers[c])
           THEN /\ tasks' = Cancel(tasks, active_timers[c])
                /\ last' = Call("handle_turn_advancement", c, 0, "None")
                /\ UNCHANGED <<games, game_metrics, active_timers, callers>>
           ELSE IF c \in DOMAIN active_timers /\ ~TaskDone(tasks, active_timers[c])
           THEN /\ tasks' = Cancel(tasks, active_timers[c])
                /\ callers' = [callers EXCEPT ![k] =
                                  [IdleCaller EXCEPT !.op = "handle_turn_advancement",
                                                     !.chat = c, !.pc = "await",
                                                     !.awaiting = active_timers[c]]]
                /\ UNCHANGED <<games, game_metrics, active_timers, last>>
           ELSE /\ AdvanceCreates(S1, c) => HasFreeTask(tasks)
                /\ Commit(r.S)
                /\ last' = Call("handle_turn_advancement", c, 0, r.ret)
        /\ UNCHANGED <<stop_tasks, isolation_vars>>

\* the await at line 75 ends: the KeyError of line 79 is caught at line 144 and
\* handle_turn_advancement returns None without having started a timer
AdvanceResume(k) ==
    LET c == callers[k].chat
        S1 == [Cur EXCEPT !.a = DictDel(@, c), !.g = ClearTimerTask(@, c), !.k[k] = IdleCaller]
        r == AdvanceAfterCancel(S1, c)
    IN  /\ callers[k].pc = "await"
        /\ callers[k].op = "handle_turn_advancement"
        /\ TaskDone(tasks, callers[k].awaiting)
        /\ IF c \notin DOMAIN active_timers
           THEN /\ last' = Call("handle_turn_advancement", c, 0, "None")
                /\ callers' = [callers EXCEPT ![k] = IdleCaller]
                /\ UNCHANGED <<games, game_metrics, active_timers, tasks>>
           ELSE /\ AdvanceCreates(S1, c) => HasFreeTask(tasks)
                /\ Commit(r.S)
                /\ last' = Call("handle_turn_advancement", c, 0, r.ret)
        /\ UNCHANGED <<stop_tasks, isolation_vars>>

NextAdvance ==
    \/ \E c \in Chats, n \in 2..NumUsers : StartGame(c, n, "A")
    \/ \E k \in CallerIds, c \in Chats : StartTurnTimer(k, c)
    \/ \E k \in CallerIds, c \in Chats : HandleTurnAdvancement(k, c)
    \/ \E k \in CallerIds : AdvanceResume(k)
    \/ \E k \in CallerIds : CallerResume(k)
    \/ \E t \in TaskIds : TimerRun(t)
    \/ \E t \in TaskIds, e \in 1..TurnTimeout : TimerWake(t, e)
    \/ \E t \in TaskIds : TimerWarnResume(t)
    \/ \E t \in TaskIds : TimerElimResume(t)
    \/ \E t \in TaskIds : TimerEndResume(t)
    \/ \E t \in TaskIds : TimerNextResume(t)
    \/ \E t \in TaskIds : TimerAwaitResume(t)

SpecAdvance == Init /\ [][NextAdvance]_vars

\* C33: after the turn advancement that follows an accepted word, in a room
\* that remains active, the previous turn timer has been cancelled and a new
\* turn timer has been started: the advancement returns the game state, having
\* created the timer of the next turn.
C33_AdvancementStartsTimer ==
    (last.op = "handle_turn_advancement" /\ GameActive(games, last.chat))
    => last.ret = "GameState"

\* C34: cleanup_old_locks never breaks the mutual exclusion: whatever the
\* interleaving of execute_with_chat_lock calls and cleanups, also a cleanup
\* that removes a lock that is held or waited for, no two different coroutines
\* run their operations for the same chat id at the same time.
C34_CleanupKeepsMutualExclusion ==
    \A o, q \in OpIds :
        (o # q /\ lock_ops[o].pc = "inside" /\ lock_ops[q].pc = "inside")
        => lock_ops[o].chat # lock_ops[q].chat


\* C36: a submission by the current player of a running room that is well
\* formed, starts with the required letter and is valid in the dictionary is
\* accepted (VALID_WORD) whenever its length is at least the required length,
\* and INVALID_LENGTH is returned only for words shorter than the required
\* length.
C36_LongerWordsAccepted ==
    [][\A c \in Chats, u \in Users, w \in RawWords, d \in DictAnswers :
         /\ ProcessWord(c, u, w, d)
         /\ c \in DOMAIN games
         => LET g == games[c]
                fmt == ValidateWordFormat(w)
            IN  /\ last'.ret = INVALID_LENGTH
                       => Len(fmt.normalized) < g.required_length
                /\ ( /\ g.is_active
                     /\ ~GetCurrentPlayerRaises(g)
                     /\ GetCurrentPlayer(g) # NoPlayer
                     /\ GetCurrentPlayer(g).user_id = u
                     /\ fmt.error = ""
                     /\ ValidateStartingLetter(fmt.normalized, g.current_letter) = ""
                     /\ Len(fmt.normalized) >= g.required_length
                     /\ d = "yes" )
                   => last'.ret = VALID_WORD]_vars


(***************************************************************************)
(* Warnings of the resource monitor (bot/concurrent_manager.py).           *)
(***************************************************************************)
WarnCeiling == 4         \* max_games of the monitor in the specification of the warnings

WarnRooms == 1..WarnCeiling

(* A game manager whose monitor has max_games = WarnCeiling: rooms are      *)
(* created waiting or active, joined, promoted and stopped.                *)
NextWarnings ==
    \/ \E c \in WarnRooms, n \in 1..2 : \E idle \in IdleSets(n, WarnCeiling), old \in OldLockSets(n, WarnCeiling) :
          StartGameFor(c, n, "A", WarnCeiling, idle, old)
    \/ \E c \in WarnRooms : \E idle \in IdleSets(1, WarnCeiling), old \in OldLockSets(1, WarnCeiling) :
          CreateWaitingGameFor(c, 1, "A", WarnCeiling, idle, old)
    \/ \E c \in WarnRooms : AddPlayerToGame(c, 2)
    \/ \E c \in WarnRooms : StartActualGameFor(c, WarnCeiling)
    \/ \E c \in WarnRooms : StopGame(c)

SpecWarnings == Init /\ [][NextWarnings]_vars

\* C37: when a new room is admitted (start_game or create_waiting_game stores
\* a room under a chat id that had none) while the number of registered rooms
\* is classified high, 70% to below 90% of the ceiling, the call appends a
\* warning entry to the warning log.
C37_WarningWhenAdmittedAtHighLoad ==
    [][\A c \in WarnRooms :
         /\ c \notin DOMAIN games
         /\ c \in DOMAIN games'
         /\ GetResourceStatusFor(Cardinality(DOMAIN games), WarnCeiling) = "high"
         => last'.warnings # <<>>]_vars


(***************************************************************************)
(* The waiting phase of the transport (bot/telegram_bot.py): /join creates *)
(* a waiting room and starts its grace timer, the task waiting_countdown.  *)
(* The task's record uses pc "grace_sleep" with wi = the sleep it is in (0 *)
(* before its first step), "grace_msg" in a reminder, "grace_announce" in  *)
(* the game-start announcement, "grace_await" inside cancel_timer and      *)
(* "grace_cancel_msg" in the cancellation notice.                          *)
(***************************************************************************)
WaitingSleeps == 4       \* the sleeps of waiting_countdown: 30, 10, 10 and 10 seconds

NewGraceTask(c) == [UnusedTask EXCEPT !.chat = c, !.pc = "grace_sleep"]

\* the task ends: by return, by CancelledError, or by an exception that is logged
GraceEnd(S, t) == [S EXCEPT !.t[t] = DoneTask(@)]

(* join_game_command(chat_id, user): the reply to a running room, a join of *)
(* a waiting room, or create_waiting_game followed by the reply during     *)
(* which the handler is suspended (callers[k].pc = "reply").  The random   *)
(* starting letter is "A".                                                 *)
JoinGameCommand(k, c, u) ==
    /\ callers[k].pc = "idle"
    /\ IF c \in DOMAIN games /\ games[c].is_active /\ ~games[c].is_waiting_for_players
       THEN /\ last' = Call("join_game_command", c, u, "in_progress")
            /\ UNCHANGED <<games, callers>>
       ELSE IF c \in DOMAIN games /\ games[c].is_waiting_for_players
            THEN LET r == AddPlayer(games[c], Player(u))
                 IN  /\ games' = DictSet(games, c, r.g)
                     /\ last' = Call("join_game_command", c, u,
                                     IF r.ok THEN "joined" ELSE "cannot_join")
                     /\ UNCHANGED callers
            ELSE IF c \in DOMAIN games \/ ~CanCreateGame(Cardinality(DOMAIN games), 1)
                 THEN /\ last' = Call("join_game_command", c, u, "ValueError")
                      /\ UNCHANGED <<games, callers>>
                 ELSE /\ games' = DictSet(games, c,
                                          NewGameState(c, "A", <<Player(u)>>, FALSE, TRUE))
                      /\ callers' = [callers EXCEPT ![k] =
                                        [IdleCaller EXCEPT !.op = "join_game_command",
                                                           !.chat = c, !.pc = "reply"]]
                      /\ last' = Call("create_waiting_game", c, u, "ok")
    /\ UNCHANGED <<game_metrics, stop_tasks, isolation_vars, active_timers, tasks>>

(* The reply of join_game_command returns: _start_waiting_timer(chat_id)    *)
(* creates the task and stores it in the room registered under the chat    *)
(* id, when there is one.                                                  *)
JoinReplyResume(k) ==
    LET c == callers[k].chat
        n == FreeTask(tasks)
    IN  /\ callers[k].pc = "reply"
        /\ callers' = [callers EXCEPT ![k] = IdleCaller]
        /\ IF c \in DOMAIN games
           THEN /\ HasFreeTask(tasks)
                /\ tasks' = [tasks EXCEPT ![n] = NewGraceTask(c)]
                /\ games' = [games EXCEPT ![c].waiting_timer_task = n]
           ELSE UNCHANGED <<games, tasks>>
        /\ last' = Call("join_game_command", c, 0, "created")
        /\ UNCHANGED <<game_metrics, stop_tasks, isolation_vars, active_timers>>

(* The task takes its first step or one of its sleeps returns.  After the   *)
(* first three sleeps a reminder is sent when the chat has a waiting room; *)
(* after the last one the waiting room under the chat id is promoted (two  *)
(* players or more) or told that it is cancelled.                          *)
GraceWake(t) ==
    LET c == tasks[t].chat
        waiting == c \in DOMAIN games /\ games[c].is_waiting_for_players
    IN  /\ tasks[t].pc = "grace_sleep"
        /\ IF tasks[t].must_cancel
           THEN Commit(GraceEnd(Cur, t))
           ELSE IF tasks[t].wi = 0
                THEN Commit([Cur EXCEPT !.t[t].wi = 1])
                ELSE IF tasks[t].wi < WaitingSleeps
                     THEN IF waiting
                          THEN Commit([Cur EXCEPT !.t[t].pc = "grace_msg"])
                          ELSE Commit([Cur EXCEPT !.t[t].wi = @ + 1])
                     ELSE IF ~waiting
                          THEN Commit(GraceEnd(Cur, t))
                          ELSE IF Len(games[c].players) >= 2
                               THEN Commit([StartActualGameOn(Cur, c) EXCEPT
                                               !.t[t].pc = "grace_announce"])
                               ELSE Commit([Cur EXCEPT !.t[t].pc = "grace_cancel_msg"])
        /\ UNCHANGED <<stop_tasks, isolation_vars, last>>

\* a reminder has been sent: the next sleep
GraceMsgResume(t) ==
    /\ tasks[t].pc = "grace_msg"
    /\ IF tasks[t].must_cancel
       THEN Commit(GraceEnd(Cur, t))
       ELSE Commit([Cur EXCEPT !.t[t].pc = "grace_sleep", !.t[t].wi = @ + 1])
    /\ UNCHANGED <<stop_tasks, isolation_vars, last>>

(* announce_game_start returns inside _start_actual_game: CancelledError    *)
(* when the task was cancelled (no handler on the way up catches it), else *)
(* start_turn_timer(chat_id) up to the await in cancel_timer or to the     *)
(* creation of the timer.                                                  *)
GraceAnnounceResume(t) ==
    LET c == tasks[t].chat
        plan == StartPlan(Cur, c, None)
    IN  /\ tasks[t].pc = "grace_announce"
        /\ IF tasks[t].must_cancel
           THEN Commit(GraceEnd(Cur, t))
           ELSE IF c \notin DOMAIN games \/ plan.next = "false"
                THEN Commit(GraceEnd(Cur, t))
                ELSE IF plan.next = "await_task"
                     THEN Commit([plan.S EXCEPT !.t[t].pc = "grace_await",
                                                !.t[t].awaiting = plan.awaiting])
                     ELSE IF plan.next = "raises"
                          THEN Commit(GraceEnd(plan.S, t))
                          ELSE /\ HasFreeTask(tasks)
                               /\ Commit(GraceEnd(CreateTimer(plan.S, c, FALSE), t))
        /\ UNCHANGED <<stop_tasks, isolation_vars, last>>

(* The await at timer_manager.py:75 ends inside the grace task.  Line 79    *)
(* raises KeyError when the awaited task has deleted the key;              *)
(* _start_actual_game logs it and sends an error message.                  *)
GraceAwaitResume(t) ==
    LET c == tasks[t].chat
        S1 == [Cur EXCEPT !.a = DictDel(@, c)]
    IN  /\ tasks[t].pc = "grace_await"
        /\ TaskDone(tasks, tasks[t].awaiting)
        /\ IF c \notin DOMAIN active_timers
           THEN Commit(GraceEnd(Cur, t))
           ELSE /\ HasFreeTask(tasks)
                /\ Commit(GraceEnd(CreateTimer(S1, c, tasks[t].stale), t))
        /\ UNCHANGED <<stop_tasks, isolation_vars, last>>

\* the cancellation notice has been sent: stop_game(chat_id)
GraceCancelResume(t) ==
    LET c == tasks[t].chat
    IN  /\ tasks[t].pc = "grace_cancel_msg"
        /\ IF tasks[t].must_cancel \/ c \notin DOMAIN games
           THEN Commit(GraceEnd(Cur, t))
           ELSE Commit(GraceEnd(StopGameOn(Cur, c), t))
        /\ UNCHANGED <<stop_tasks, isolation_vars, last>>

\* a step of the grace timer task t
GraceStep(t) ==
    \/ GraceWake(t)
    \/ GraceMsgResume(t)
    \/ GraceAnnounceResume(t)
    \/ GraceAwaitResume(t)
    \/ GraceCancelResume(t)

(* Rooms are created by /join, joined, force-started, stopped and timed     *)
(* out, while their grace timers and turn timers run.                      *)
NextGrace ==
    \/ \E k \in CallerIds, c \in Chats, u \in Users : JoinGameCommand(k, c, u)
    \/ \E k \in CallerIds : JoinReplyResume(k)
    \/ \E c \in Chats : StartActualGame(c)
    \/ \E c \in Chats : StopGame(c)
    \/ \E k \in CallerIds, c \in Chats : StartTurnTimer(k, c)
    \/ \E k \in CallerIds : CallerResume(k)
    \/ \E t \in TaskIds : GraceWake(t)
    \/ \E t \in TaskIds : GraceMsgResume(t)
    \/ \E t \in TaskIds : GraceAnnounceResume(t)
    \/ \E t \in TaskIds : GraceAwaitResume(t)
    \/ \E t \in TaskIds : GraceCancelResume(t)
    \/ \E t \in TaskIds : TimerRun(t)
    \/ \E t \in TaskIds, e \in 1..TurnTimeout : TimerWake(t, e)
    \/ \E t \in TaskIds : TimerWarnResume(t)
    \/ \E t \in TaskIds : TimerElimResume(t)
    \/ \E t \in TaskIds : TimerEndResume(t)
    \/ \E t \in TaskIds : TimerNextResume(t)
    \/ \E t \in TaskIds : TimerAwaitResume(t)

SpecGrace == Init /\ [][NextGrace]_vars

\* C38: a grace timer acts only on the room it was started for: once that
\* room has been stopped, no step of the grace timer task changes the
\* registry, so it never promotes, cancels or stops a game that was created
\* later under the same chat id.
C38_GraceTimerKeepsToItsRoom ==
    [][\A t \in TaskIds :
         GraceStep(t) /\ tasks[t].stopped => games' = games]_vars

\* C39: when the game-start announcement of a promotion made by the grace
\* timer task ends and that ends the task, the room it promoted, if still
\* registered and active, has a registered turn timer that has not finished.
C39_PromotionStartsTurnTimer ==
    [][\A t \in TaskIds :
         /\ GraceAnnounceResume(t)
         /\ tasks'[t].pc = "done"
         /\ GameActive(games', tasks[t].chat)
         => /\ tasks[t].chat \in DOMAIN active_timers'
            /\ ~TaskDone(tasks', active_timers'[tasks[t].chat])]_vars


(***************************************************************************)
(* The rooms of the transport when nobody submits a word or stops a game:  *)
(* /join, /forcestart, the grace timers and the turn timers.               *)
(***************************************************************************)
(* force_start_command(chat_id): a reply when the chat has no waiting room  *)
(* with two players; else _start_actual_game up to the game-start          *)
(* announcement, during which the handler is suspended                     *)
(* (callers[k].pc = "announce").                                           *)
ForceStartCommand(k, c) ==
    /\ callers[k].pc = "idle"
    /\ IF \/ c \notin DOMAIN games
          \/ ~games[c].is_waiting_for_players
          \/ Len(games[c].players) < 2
       THEN /\ last' = Call("force_start_command", c, 0, "rejected")
            /\ UNCHANGED <<games, game_metrics, active_timers, tasks, callers>>
       ELSE /\ Commit([StartActualGameOn(Cur, c) EXCEPT !.k[k] =
                          [IdleCaller EXCEPT !.op = "force_start_command",
                                             !.chat = c, !.pc = "announce"]])
            /\ last' = Call("start_actual_game", c, 0, "ok")
    /\ UNCHANGED <<stop_tasks, isolation_vars>>

(* The game-start announcement returns in the handler: start_turn_timer up  *)
(* to the await in cancel_timer or to the creation of the timer.            *)
ForceStartResume(k) ==
    LET c == callers[k].chat
        plan == StartPlan(Cur, c, None)
    IN  /\ callers[k].pc = "announce"
        /\ IF c \notin DOMAIN games \/ plan.next = "false"
           THEN /\ callers' = [callers EXCEPT ![k] = IdleCaller]
                /\ last' = Call("start_turn_timer", c, 0, "False")
                /\ UNCHANGED <<games, game_metrics, active_timers, tasks>>
           ELSE IF plan.next = "await_task"
                THEN /\ Commit([plan.S EXCEPT !.k[k] =
                                   [IdleCaller EXCEPT !.op = "start_turn_timer", !.chat = c,
                                                      !.pc = "await",
                                                      !.awaiting = plan.awaiting]])
                     /\ UNCHANGED last
                ELSE IF plan.next = "raises"
                     THEN /\ Commit([plan.S EXCEPT !.k[k] = IdleCaller])
                          /\ last' = Call("start_turn_timer", c, 0, "RuntimeError")
                     ELSE /\ HasFreeTask(tasks)
                          /\ Commit([CreateTimer(plan.S, c, FALSE) EXCEPT !.k[k] = IdleCaller])
                          /\ last' = Call("start_turn_timer", c, 0, "True")
        /\ UNCHANGED <<stop_tasks, isolation_vars>>

(* No room is stopped by a command, so start_turn_timer never finds a       *)
(* registered timer that has not finished and never waits in cancel_timer. *)
NextCountdown ==
    \/ \E k \in CallerIds, c \in Chats, u \in Users : JoinGameCommand(k, c, u)
    \/ \E k \in CallerIds : JoinReplyResume(k)
    \/ \E k \in CallerIds, c \in Chats : ForceStartCommand(k, c)
    \/ \E k \in CallerIds : ForceStartResume(k)
    \/ \E t \in TaskIds : GraceWake(t)
    \/ \E t \in TaskIds : GraceMsgResume(t)
    \/ \E t \in TaskIds : GraceAnnounceResume(t)
    \/ \E t \in TaskIds : GraceCancelResume(t)
    \/ \E t \in TaskIds : TimerRun(t)
    \/ \E t \in TaskIds, e \in 1..TurnTimeout : TimerWake(t, e)
    \/ \E t \in TaskIds : TimerWarnResume(t)
    \/ \E t \in TaskIds : TimerElimResume(t)
    \/ \E t \in TaskIds : TimerEndResume(t)
    \/ \E t \in TaskIds : TimerNextResume(t)
    \/ \E t \in TaskIds : TimerAwaitResume(t)

SpecCountdown == Init /\ [][NextCountdown]_vars

\* a task of the chat has not finished, or a handler for the chat is suspended
CountdownPending(c) ==
    \/ \E t \in TaskIds : tasks[t].chat = c /\ tasks[t].pc \notin {"unused", "done"}
    \/ \E k \in CallerIds : callers[k].chat = c /\ callers[k].pc # "idle"

\* C40: an active room whose players submit no word is reduced by timeouts
\* and removed from the registry.  Every step towards that is taken by a task
\* or a suspended handler of the room's chat, so an active room always has
\* one: a turn timer, the task handling its timeout, or the promotion that
\* is about to start its timer.
C40_ActiveRoomKeepsCountdown ==
    \A c \in Chats : GameActive(games, c) => CountdownPending(c)

\* no coroutine waits inside cancel_timer when no room is stopped by a command
NoWaitInCancelTimer ==
    /\ \A k \in CallerIds : callers[k].pc # "await"
    /\ \A t \in TaskIds : tasks[t].pc # "grace_await"

====
